---- MODULE Spec2Model ----
(***************************************************************************)
(* Access Parser Server: the resumable chunked-upload protocol, its        *)
(* disk-backed session registries (chunkSessions, fileCache) and the       *)
(* periodic expiry sweep, modelled from the server source.                 *)
(*                                                                         *)
(* Disk is modelled as three maps: the set of chunk directories under      *)
(* CHUNKS_DIR, the `${index}.part` files inside them, and the files of     *)
(* UPLOADS_DIR.  Request fields are JavaScript values, converted with the  *)
(* conversions the handlers apply (Number(), truthiness, `||`).            *)
(***************************************************************************)
EXTENDS Integers, Sequences, FiniteSets, TLC

VARIABLES
    chunkSessions,  \* uploadId -> [dirPath, filename, totalChunks, size, createdAt]
    fileCache,      \* sessionId -> [filePath, filename, timestamp]
    chunkDirs,      \* directories that exist under CHUNKS_DIR
    chunkParts,     \* <<dir, index>> -> bytes of the file `${index}.part`
    uploadFiles,    \* files of UPLOADS_DIR: path -> bytes
    pool,           \* tokens crypto.randomBytes has not produced yet
    now,            \* Date.now()
    resp,           \* the last HTTP response sent, or the last sweep's log
    outOfOrder,     \* history: some chunk was stored while a lower index was still missing
    client          \* a client reading a table page by page: the variables of its loop

vars == <<chunkSessions, fileCache, chunkDirs, chunkParts, uploadFiles, pool, now, resp, outOfOrder,
          client>>

----------------------------------------------------------------------------
(* Bounds of the model *)

MaxIndex == 1
MaxNow == 7200001

(* Program constants *)

SESSION_TIMEOUT == 60 * 60 * 1000
CHUNK_TIMEOUT == 2 * 60 * 60 * 1000
MaxFilenameLen == 200

----------------------------------------------------------------------------
(* JavaScript values carried by request fields and session attributes *)

JSUndef == [t |-> "undefined", n |-> 0, s |-> ""]
JSNull == [t |-> "null", n |-> 0, s |-> ""]
JSNaN == [t |-> "NaN", n |-> 0, s |-> ""]
JSNum(k) == [t |-> "number", n |-> k, s |-> ""]
JSStr(str) == [t |-> "string", n |-> 0, s |-> str]

\* The numeric strings the model sends, with the number each one denotes.
NumeralValue == ("" :> 0) @@ ("0" :> 0) @@ ("1" :> 1) @@ ("01" :> 1) @@ ("2" :> 2)
                @@ ("3" :> 3) @@ ("4" :> 4) @@ ("-1" :> -1)

\* Number(v)
ToNumber(v) ==
    CASE v.t = "number" -> v
      [] v.t = "null" -> JSNum(0)
      [] v.t = "string" -> IF v.s \in DOMAIN NumeralValue THEN JSNum(NumeralValue[v.s]) ELSE JSNaN
      [] OTHER -> JSNaN

\* the truthiness of v, as `!v` and `v || w` test it
Truthy(v) ==
    CASE v.t = "number" -> v.n # 0
      [] v.t = "string" -> v.s # ""
      [] OTHER -> FALSE

\* Number.isFinite(v)
IsFinite(v) == v.t = "number"

\* Number(x) || null
NumberOrNull(v) == IF Truthy(ToNumber(v)) THEN ToNumber(v) ELSE JSNull

----------------------------------------------------------------------------
(* Identifiers, file names and payloads *)

\* the 128-bit random hex tokens of generateUploadId / generateSessionId
UploadIds == {"u1", "u2"}
SessionIds == {"s1", "s2"}
\* what a request may send as uploadId: any token, or nothing
NoId == ""

ByteValues == {1, 2}
\* req.file of multer's memoryStorage: absent, or a buffer
NoFile == [present |-> FALSE, buffer |-> <<>>]
File(bytes) == [present |-> TRUE, buffer |-> bytes]
ChunkFiles == {NoFile} \cup {File(<<b>>) : b \in ByteValues}

\* filename of /upload-init: missing, not a string, empty, or a string of characters
NoFilename == [t |-> "undefined", chars |-> <<>>]
Filename(chars) == [t |-> "string", chars |-> chars]
FilenameInputs == {NoFilename, [t |-> "number", chars |-> <<>>], Filename(<<>>),
                   Filename(<<"a", "/">>)}

UnsafeChars == {"/", "\\", "?", "%", "*", ":", "|", "\"", "<", ">"}

Min(a, b) == IF a < b THEN a ELSE b

\* sanitizeFilename, on the characters of a non-empty string
sanitizeFilename(chars) ==
    LET replaced == [k \in 1..Len(chars) |->
                        IF chars[k] \in UnsafeChars THEN "_" ELSE chars[k]]
    IN SubSeq(replaced, 1, Min(Len(replaced), MaxFilenameLen))

\* getChunkDir: path.join(CHUNKS_DIR, uploadId)
getChunkDir(uploadId) == uploadId

\* getChunkPath: path.join(getChunkDir(uploadId), `${index}.part`)
\* mutant: every upload's chunks land in the same directory
getChunkPath_sharedDir(uploadId, index) == <<"u1", index>>

getChunkPath(uploadId, index) == <<getChunkDir(uploadId), index>>

\* mutant: the assembled file is named after the filename alone
FinalPath_noUploadId(uploadId, filename) == [id |-> NoId, name |-> filename]

\* path.join(UPLOADS_DIR, `${uploadId}-${session.filename}`)
FinalPath(uploadId, filename) == [id |-> uploadId, name |-> filename]

\* fs.existsSync of a chunk file
PartExists(path) == path \in DOMAIN chunkParts

\* mutant: the files are removed and the directory itself is left behind
RmDir_keepsDir(dirs, dirPath) == dirs

\* fs.rmSync(dirPath, {recursive, force}) on the chunk directories and their files
RmDir(dirs, dirPath) == dirs \ {dirPath}
RmParts(parts, dirPath) ==
    [p \in {q \in DOMAIN parts : q[1] # dirPath} |-> parts[p]]

\* mutant: delete leaves the entry in the map
MapDelete_keeps(map, key) == map

\* Map.delete(key)
MapDelete(map, key) == [k \in DOMAIN map \ {key} |-> map[k]]
\* Map.set(key, value)
MapSet(map, key, value) == [k \in DOMAIN map \cup {key} |-> IF k = key THEN value ELSE map[k]]

----------------------------------------------------------------------------
(* Responses *)

\* index and sent echo the chunk an accepted /upload-chunk request carried;
\* expired holds the identifiers a sweep tick logged as expiring; rowInput is
\* the table row handed to the row parsers and rows the outcomes they returned;
\* columns, dataType, totalRows, offset, limit and hasMore are the fields of a
\* /parse-table-batch answer, success and failed the lists of /parse-table.
NoResp == [op |-> "none", uploadId |-> NoId, status |-> 0, error |-> "", missing |-> -1,
           sessionId |-> "", totalChunks |-> JSNull, received |-> 0, receivedIndices |-> <<>>,
           index |-> -1, sent |-> <<>>, expired |-> {}, rowInput |-> <<>>, rows |-> <<>>,
           columns |-> <<>>, dataType |-> "", totalRows |-> 0, offset |-> 0, limit |-> 0,
           hasMore |-> FALSE, success |-> <<>>, failed |-> <<>>]

Reply(op, uploadId, status, error) ==
    [NoResp EXCEPT !.op = op, !.uploadId = uploadId, !.status = status, !.error = error]

ErrNotFound == "Upload nao encontrado ou expirado. Reenvie o arquivo."
ErrNoUploadId == "uploadId nao fornecido"
ErrIndex == "index invalido"
ErrTotalChunks == "totalChunks invalido"
ErrNoChunk == "Chunk nao fornecido"
ErrTotalMissing == "totalChunks ausente/ invalido"
ErrChunkMissing == "Chunk ausente"
ErrFilename == "Nome do arquivo invalido"
ErrOpen == "EIO: open"
ErrRead == "EIO: read"
ErrWrite == "EIO: write"
ErrRm == "EIO: rm"
ErrReader == "MDBReader"

\* assertChunkSession: the session is returned, or a 400 error is thrown
SessionKnown(uploadId) == uploadId # NoId /\ uploadId \in DOMAIN chunkSessions

\* The indices of the `${index}.part` files of a directory, ascending:
\* readdirSync, the .part filter, Number() and sort((a, b) => a - b)
RECURSIVE SortAscending_descending(_)
\* mutant: the comparator is (a, b) => b - a
SortAscending_descending(S) ==
    IF S = {} THEN <<>>
    ELSE LET greatest == CHOOSE x \in S : \A y \in S : y <= x
         IN <<greatest>> \o SortAscending_descending(S \ {greatest})

RECURSIVE SortAscending(_)
SortAscending(S) ==
    IF S = {} THEN <<>>
    ELSE LET least == CHOOSE x \in S : \A y \in S : x <= y
         IN <<least>> \o SortAscending(S \ {least})

PartIndices(dirPath) == {p[2] : p \in {q \in DOMAIN chunkParts : q[1] = dirPath}}

----------------------------------------------------------------------------
(* File-system faults.  A reliable disk is NoFault; the faulty disk lets one  *)
(* system call of the request throw.                                          *)

NoFault == [kind |-> "none", at |-> 0]
Fault(kind, at) == [kind |-> kind, at |-> at]

----------------------------------------------------------------------------
(* assembleChunksSync: the outcome of the loop, and what it wrote.            *)
(* opened: openSync(outFilePath, 'w') created or truncated the output file;   *)
(* out: the bytes written to it before the loop ended or threw.               *)

RECURSIVE AssembleFrom(_, _, _, _, _)
AssembleFrom(uploadId, totalChunks, i, out, fault) ==
    IF ~(i < totalChunks)
    THEN [ok |-> TRUE, status |-> 200, error |-> "", missing |-> -1, opened |-> TRUE, out |-> out]
    ELSE IF ~PartExists(getChunkPath(uploadId, i))
    THEN [ok |-> FALSE, status |-> 400, error |-> ErrChunkMissing, missing |-> i,
          opened |-> TRUE, out |-> out]
    ELSE IF fault.kind \in {"read", "write"} /\ fault.at = i
    THEN [ok |-> FALSE, status |-> 500, error |-> IF fault.kind = "read" THEN ErrRead ELSE ErrWrite,
          missing |-> -1, opened |-> TRUE, out |-> out]
    ELSE AssembleFrom(uploadId, totalChunks, i + 1,
                      out \o chunkParts[getChunkPath(uploadId, i)], fault)

\* mutant: the error names the last missing index instead of the first
assembleChunksSync_namesLastMissing(uploadId, totalChunks, fault) ==
    LET r == AssembleFrom(uploadId, totalChunks, 0, <<>>, fault)
        absent == {i \in 0..(totalChunks - 1) : ~PartExists(getChunkPath(uploadId, i))}
    IN IF r.error = ErrChunkMissing
       THEN [r EXCEPT !.missing = CHOOSE i \in absent : \A j \in absent : j <= i]
       ELSE r

RECURSIVE ConcatDescending(_, _)
ConcatDescending(uploadId, n) ==
    IF n = 0 THEN <<>>
    ELSE chunkParts[getChunkPath(uploadId, n - 1)] \o ConcatDescending(uploadId, n - 1)

\* mutant: the chunks are written from the highest index down
assembleChunksSync_descending(uploadId, totalChunks, fault) ==
    LET r == AssembleFrom(uploadId, totalChunks, 0, <<>>, fault)
    IN IF r.ok THEN [r EXCEPT !.out = ConcatDescending(uploadId, totalChunks)] ELSE r

\* mutant: an exception inside the assembler is swallowed and the caller goes on
assembleChunksSync_swallowsErrors(uploadId, totalChunks, fault) ==
    LET r == AssembleFrom(uploadId, totalChunks, 0, <<>>, fault)
    IN [r EXCEPT !.ok = TRUE, !.status = 200, !.error = ""]

assembleChunksSync(uploadId, totalChunks, fault) ==
    IF fault.kind = "open"
    THEN [ok |-> FALSE, status |-> 500, error |-> ErrOpen, missing |-> -1,
          opened |-> FALSE, out |-> <<>>]
    ELSE AssembleFrom(uploadId, totalChunks, 0, <<>>, fault)

----------------------------------------------------------------------------
(* Initial state: empty registries, empty uploads and chunks directories *)

EmptyMap == [k \in {} |-> 0]

\* the paging client before it starts: no session, nothing received
NoClient == [state |-> "idle", sessionId |-> NoId, limit |-> 0, offset |-> 0,
             received |-> <<>>, calls |-> 0]

\* tokens: the values crypto.randomBytes will return in this run
InitOver(tokens) ==
    /\ chunkSessions = EmptyMap
    /\ fileCache = EmptyMap
    /\ chunkDirs = {}
    /\ chunkParts = EmptyMap
    /\ uploadFiles = EmptyMap
    /\ pool = tokens
    /\ now = 0
    /\ resp = NoResp
    /\ outOfOrder = FALSE
    /\ client = NoClient

Init == InitOver({"u1", "s1"})

----------------------------------------------------------------------------
(* POST /upload-init *)

\* mutant: the uploadId and its directory are made before the filename check
upload_init_dirBeforeCheck(filename, size, totalChunks) ==
    \E uploadId \in UploadIds \cap pool :
        LET dirPath == getChunkDir(uploadId)
        IN /\ chunkDirs' = chunkDirs \cup {dirPath}
           /\ pool' = pool \ {uploadId}
           /\ UNCHANGED <<fileCache, chunkParts, uploadFiles, now, outOfOrder, client>>
           /\ IF filename.t # "string" \/ filename.chars = <<>>
              THEN /\ resp' = Reply("upload-init", NoId, 400, ErrFilename)
                   /\ UNCHANGED chunkSessions
              ELSE /\ chunkSessions' = MapSet(chunkSessions, uploadId,
                          [dirPath |-> dirPath,
                           filename |-> sanitizeFilename(filename.chars),
                           totalChunks |-> NumberOrNull(totalChunks),
                           size |-> NumberOrNull(size),
                           createdAt |-> now])
                   /\ resp' = Reply("upload-init", uploadId, 200, "")

upload_init(filename, size, totalChunks) ==
    IF filename.t # "string" \/ filename.chars = <<>>
    THEN /\ resp' = Reply("upload-init", NoId, 400, ErrFilename)
         /\ UNCHANGED <<chunkSessions, fileCache, chunkDirs, chunkParts, uploadFiles, pool, now, outOfOrder, client>>
    ELSE \E uploadId \in UploadIds \cap pool :
            LET dirPath == getChunkDir(uploadId)
            IN /\ chunkDirs' = chunkDirs \cup {dirPath}
               /\ chunkSessions' = MapSet(chunkSessions, uploadId,
                      [dirPath |-> dirPath,
                       filename |-> sanitizeFilename(filename.chars),
                       totalChunks |-> NumberOrNull(totalChunks),
                       size |-> NumberOrNull(size),
                       createdAt |-> now])
               /\ pool' = pool \ {uploadId}
               /\ resp' = Reply("upload-init", uploadId, 200, "")
               /\ UNCHANGED <<fileCache, chunkParts, uploadFiles, now, outOfOrder, client>>

(* GET /upload-status *)

\* mutant: an unknown uploadId is answered as an upload with no chunks
upload_status_unknownIsEmpty(uploadId) ==
    /\ UNCHANGED <<chunkSessions, fileCache, chunkDirs, chunkParts, uploadFiles, pool, now, outOfOrder, client>>
    /\ IF uploadId = NoId
       THEN resp' = Reply("upload-status", uploadId, 400, ErrNoUploadId)
       ELSE LET receivedIndices == IF uploadId \in chunkDirs
                                   THEN SortAscending(PartIndices(uploadId)) ELSE <<>>
            IN resp' = [Reply("upload-status", uploadId, 200, "") EXCEPT
                           !.totalChunks = IF uploadId \in DOMAIN chunkSessions
                                           THEN chunkSessions[uploadId].totalChunks ELSE JSNull,
                           !.received = Len(receivedIndices),
                           !.receivedIndices = receivedIndices]

upload_status(uploadId) ==
    /\ UNCHANGED <<chunkSessions, fileCache, chunkDirs, chunkParts, uploadFiles, pool, now, outOfOrder, client>>
    /\ IF uploadId = NoId
       THEN resp' = Reply("upload-status", uploadId, 400, ErrNoUploadId)
       ELSE IF uploadId \notin DOMAIN chunkSessions
       THEN resp' = Reply("upload-status", uploadId, 404, ErrNotFound)
       ELSE LET session == chunkSessions[uploadId]
                receivedIndices == IF session.dirPath \in chunkDirs
                                   THEN SortAscending(PartIndices(session.dirPath))
                                   ELSE <<>>
            IN resp' = [Reply("upload-status", uploadId, 200, "") EXCEPT
                           !.totalChunks = session.totalChunks,
                           !.received = Len(receivedIndices),
                           !.receivedIndices = receivedIndices]

(* POST /upload-chunk *)

\* mutant: the chunk file is written whether or not it exists
WriteChunk_overwrites(parts, chunkPath, buffer) == MapSet(parts, chunkPath, buffer)

\* the write of lines 632-635: skipped when the chunk file exists
WriteChunk(parts, chunkPath, buffer) ==
    IF chunkPath \in DOMAIN parts THEN parts ELSE MapSet(parts, chunkPath, buffer)

\* mutant: every chunk request overwrites the session's totalChunks
KeepAlive_adoptsAlways(session, totalChunks) ==
    [session EXCEPT !.createdAt = now, !.totalChunks = totalChunks]

\* mutant: the chunk request does not touch createdAt
KeepAlive_noRefresh(session, totalChunks) ==
    [session EXCEPT !.totalChunks = IF ~Truthy(session.totalChunks)
                                    THEN totalChunks ELSE session.totalChunks]

\* session.createdAt = Date.now(); if (!session.totalChunks) session.totalChunks = totalChunks
KeepAlive(session, totalChunks) ==
    [session EXCEPT
        !.createdAt = now,
        !.totalChunks = IF ~Truthy(session.totalChunks)
                        THEN totalChunks ELSE session.totalChunks]

upload_chunk(uploadId, indexRaw, totalChunksRaw, file, fault) ==
    LET index == ToNumber(indexRaw)
        totalChunks == ToNumber(totalChunksRaw)
    IN
    IF uploadId = NoId
    THEN /\ resp' = Reply("upload-chunk", uploadId, 400, ErrNoUploadId)
         /\ UNCHANGED <<chunkSessions, fileCache, chunkDirs, chunkParts, uploadFiles, pool, now, outOfOrder, client>>
    ELSE IF ~IsFinite(index) \/ index.n < 0
    THEN /\ resp' = Reply("upload-chunk", uploadId, 400, ErrIndex)
         /\ UNCHANGED <<chunkSessions, fileCache, chunkDirs, chunkParts, uploadFiles, pool, now, outOfOrder, client>>
    ELSE IF ~IsFinite(totalChunks) \/ totalChunks.n <= 0
    THEN /\ resp' = Reply("upload-chunk", uploadId, 400, ErrTotalChunks)
         /\ UNCHANGED <<chunkSessions, fileCache, chunkDirs, chunkParts, uploadFiles, pool, now, outOfOrder, client>>
    ELSE IF ~SessionKnown(uploadId)
    THEN /\ resp' = Reply("upload-chunk", uploadId, 400, ErrNotFound)
         /\ UNCHANGED <<chunkSessions, fileCache, chunkDirs, chunkParts, uploadFiles, pool, now, outOfOrder, client>>
    ELSE
        LET session == chunkSessions[uploadId]
            kept == KeepAlive(session, totalChunks)
            chunkPath == getChunkPath(uploadId, index.n)
        IN
        /\ chunkSessions' = [chunkSessions EXCEPT ![uploadId] = kept]
        /\ UNCHANGED <<fileCache, uploadFiles, pool, now, client>>
        /\ IF ~file.present
           THEN /\ resp' = Reply("upload-chunk", uploadId, 400, ErrNoChunk)
                /\ UNCHANGED <<chunkDirs, chunkParts, outOfOrder>>
           ELSE /\ chunkDirs' = chunkDirs \cup {session.dirPath}
                /\ IF fault.kind \in {"write", "truncate"} /\ ~PartExists(chunkPath)
                   THEN /\ resp' = Reply("upload-chunk", uploadId, 500, ErrWrite)
                        \* writeFileSync threw: before creating the file, or after
                        /\ chunkParts' = IF fault.kind = "truncate"
                                         THEN MapSet(chunkParts, chunkPath, <<>>)
                                         ELSE chunkParts
                        /\ UNCHANGED outOfOrder
                   ELSE /\ resp' = [Reply("upload-chunk", uploadId, 200, "") EXCEPT
                                       !.index = index.n, !.sent = file.buffer]
                        /\ chunkParts' = WriteChunk(chunkParts, chunkPath, file.buffer)
                        /\ outOfOrder' = (outOfOrder \/
                              (~PartExists(chunkPath) /\
                               \E j \in 0..(index.n - 1) : ~PartExists(getChunkPath(uploadId, j))))

(* POST /upload-complete *)

\* mutant: the output file is opened for appending
OpenWrite_appends(files, outFilePath, out) ==
    MapSet(files, outFilePath,
           (IF outFilePath \in DOMAIN files THEN files[outFilePath] ELSE <<>>) \o out)

\* fs.openSync(outFilePath, 'w') and the writes that follow: the file is
\* created, or emptied when it exists, and holds what was written
OpenWrite(files, outFilePath, out) == MapSet(files, outFilePath, out)

upload_complete(uploadId, fault, readerOk) ==
    IF ~SessionKnown(uploadId)
    THEN /\ resp' = Reply("upload-complete", uploadId, 400, ErrNotFound)
         /\ UNCHANGED <<chunkSessions, fileCache, chunkDirs, chunkParts, uploadFiles, pool, now, outOfOrder, client>>
    ELSE
        LET session == chunkSessions[uploadId]
            totalChunks == ToNumber(session.totalChunks)
        IN
        IF ~IsFinite(totalChunks) \/ totalChunks.n <= 0
        THEN /\ resp' = Reply("upload-complete", uploadId, 400, ErrTotalMissing)
             /\ UNCHANGED <<chunkSessions, fileCache, chunkDirs, chunkParts, uploadFiles, pool, now, outOfOrder, client>>
        ELSE
            \E sessionId \in SessionIds \cap pool :
                LET finalPath == FinalPath(uploadId, session.filename)
                    asm == assembleChunksSync(uploadId, totalChunks.n, fault)
                IN
                IF ~asm.ok
                THEN \* the exception reaches the handler's catch
                     /\ uploadFiles' = IF asm.opened
                                       THEN OpenWrite(uploadFiles, finalPath, asm.out)
                                       ELSE uploadFiles
                     /\ resp' = [Reply("upload-complete", uploadId, asm.status, asm.error)
                                    EXCEPT !.missing = asm.missing]
                     /\ UNCHANGED <<chunkSessions, fileCache, chunkDirs, chunkParts, pool, now, outOfOrder, client>>
                ELSE
                     /\ uploadFiles' = OpenWrite(uploadFiles, finalPath, asm.out)
                     \* rmSync sits in its own try/catch: a failure is only logged
                     /\ IF fault.kind = "rm"
                        THEN UNCHANGED <<chunkDirs, chunkParts>>
                        ELSE /\ chunkDirs' = RmDir(chunkDirs, session.dirPath)
                             /\ chunkParts' = RmParts(chunkParts, session.dirPath)
                     /\ chunkSessions' = MapDelete(chunkSessions, uploadId)
                     /\ fileCache' = MapSet(fileCache, sessionId,
                            [filePath |-> finalPath, filename |-> session.filename,
                             timestamp |-> now])
                     /\ pool' = pool \ {sessionId}
                     /\ resp' = IF fault.kind = "readFinal"
                                THEN Reply("upload-complete", uploadId, 500, ErrRead)
                                ELSE IF ~readerOk
                                THEN Reply("upload-complete", uploadId, 500, ErrReader)
                                ELSE [Reply("upload-complete", uploadId, 200, "")
                                         EXCEPT !.sessionId = sessionId]
                     /\ UNCHANGED <<now, outOfOrder, client>>

(* POST /upload-abort *)

upload_abort(uploadId, fault) ==
    IF uploadId = NoId \/ uploadId \notin DOMAIN chunkSessions
    THEN /\ resp' = Reply("upload-abort", uploadId, 200, "")
         /\ UNCHANGED <<chunkSessions, fileCache, chunkDirs, chunkParts, uploadFiles, pool, now, outOfOrder, client>>
    ELSE
        LET session == chunkSessions[uploadId]
        IN
        IF session.dirPath \in chunkDirs /\ fault.kind = "rm"
        THEN \* rmSync threw: the catch answers 500 and the entry stays
             /\ resp' = Reply("upload-abort", uploadId, 500, ErrRm)
             /\ UNCHANGED <<chunkSessions, fileCache, chunkDirs, chunkParts, uploadFiles, pool, now, outOfOrder, client>>
        ELSE /\ chunkDirs' = RmDir(chunkDirs, session.dirPath)
             /\ chunkParts' = RmParts(chunkParts, session.dirPath)
             /\ chunkSessions' = MapDelete(chunkSessions, uploadId)
             /\ resp' = Reply("upload-abort", uploadId, 200, "")
             /\ UNCHANGED <<fileCache, uploadFiles, pool, now, outOfOrder, client>>

----------------------------------------------------------------------------
(* Row validation *)

\* String(name).toLowerCase().trim() on the strings the rows below carry; every
\* other string of the model is already lower-case and trimmed.
LowerTrimmed ==
    ("Nome" :> "nome") @@ (" Oil " :> "oil") @@ ("Gás" :> "gás") @@ ("ATIVO" :> "ativo")

toLowerCaseTrim(s) == IF s \in DOMAIN LowerTrimmed THEN LowerTrimmed[s] ELSE s

Numerals == <<"0", "1", "2", "3", "4", "5">>

\* String(val) of a cell
StringOf(val) ==
    CASE val.t = "string" -> val.s
      [] val.t = "number" /\ val.n \in 0..5 -> Numerals[val.n + 1]
      [] val.t = "NaN" -> "NaN"
      [] val.t = "null" -> "null"
      [] val.t = "undefined" -> "undefined"

wellsColumnMappings ==
    ("nome" :> "name") @@ ("nome do poço" :> "name") @@ ("poço" :> "name") @@ ("poco" :> "name")
    @@ ("bloco" :> "block") @@ ("campo" :> "field") @@ ("campo petrolífero" :> "field")
    @@ ("província" :> "province") @@ ("provincia" :> "province")
    @@ ("latitude" :> "latitude") @@ ("lat" :> "latitude")
    @@ ("longitude" :> "longitude") @@ ("long" :> "longitude") @@ ("lng" :> "longitude")
    @@ ("profundidade" :> "depth") @@ ("depth" :> "depth")
    @@ ("tipo" :> "type") @@ ("type" :> "type") @@ ("tipo de hidrocarboneto" :> "type")
    @@ ("reservas" :> "estimated_reserves") @@ ("reservas estimadas" :> "estimated_reserves")
    @@ ("estimated_reserves" :> "estimated_reserves")
    @@ ("produção diária" :> "daily_production") @@ ("producao diaria" :> "daily_production")
    @@ ("produção" :> "daily_production") @@ ("daily_production" :> "daily_production")
    @@ ("data de início" :> "production_start_date") @@ ("data inicio" :> "production_start_date")
    @@ ("início produção" :> "production_start_date")
    @@ ("production_start_date" :> "production_start_date")
    @@ ("status" :> "status") @@ ("estado" :> "status")
    @@ ("taxa de declínio" :> "decline_rate") @@ ("declínio" :> "decline_rate")
    @@ ("decline_rate" :> "decline_rate")

productionColumnMappings ==
    ("wlbr_id" :> "wlbr_id") @@ ("wellbore_id" :> "wlbr_id") @@ ("id do poço" :> "wlbr_id")
    @@ ("wlbr_nm" :> "wlbr_nm") @@ ("wellbore_name" :> "wlbr_nm") @@ ("nome do poço" :> "wlbr_nm")
    @@ ("wellbore name" :> "wlbr_nm")
    @@ ("cmpl_id" :> "cmpl_id") @@ ("completion_id" :> "cmpl_id")
    @@ ("daytime" :> "production_date") @@ ("date" :> "production_date")
    @@ ("data" :> "production_date") @@ ("data produção" :> "production_date")
    @@ ("oil" :> "oil_volume") @@ ("óleo" :> "oil_volume") @@ ("petroleo" :> "oil_volume")
    @@ ("petróleo" :> "oil_volume")
    @@ ("water" :> "water_volume") @@ ("água" :> "water_volume") @@ ("agua" :> "water_volume")
    @@ ("gas" :> "gas_volume") @@ ("gás" :> "gas_volume")
    @@ ("glg" :> "glg") @@ ("gas lift" :> "glg")
    @@ ("hours" :> "hours_produced") @@ ("horas" :> "hours_produced")
    @@ ("choke" :> "choke_size") @@ ("bhp" :> "bhp") @@ ("bht" :> "bht") @@ ("whp" :> "whp")
    @@ ("wht" :> "wht") @@ ("chp" :> "chp")

normalizeColumnName(name, dataType) ==
    LET normalized == toLowerCaseTrim(name)
        mappings == IF dataType = "production" THEN productionColumnMappings
                    ELSE wellsColumnMappings
    IN  IF normalized \in DOMAIN mappings THEN mappings[normalized] ELSE normalized

\* mapped[field] after the columns.forEach of a row parser: the cell of the
\* last column whose normalised name is field, undefined when there is none
Mapped(row, columns, dataType, field) ==
    LET hits == {i \in 1..Len(columns) : normalizeColumnName(columns[i], dataType) = field}
    IN  IF hits = {} THEN JSUndef
        ELSE row[columns[CHOOSE i \in hits : \A j \in hits : j <= i]]

\* original: the row's cells under the column names as given
Original(row, columns) == [col \in {columns[i] : i \in 1..Len(columns)} |-> row[col]]

normalizeType(val) ==
    IF ~Truthy(val) THEN ""
    ELSE LET normalized == toLowerCaseTrim(StringOf(val))
         IN  IF normalized \in {"petróleo", "petroleo", "oil"} THEN "oil"
             ELSE IF normalized \in {"gás", "gas"} THEN "gas"
             ELSE IF normalized \in {"misto", "mixed"} THEN "mixed"
             ELSE StringOf(val)

normalizeStatus(val) ==
    IF ~Truthy(val) THEN ""
    ELSE LET normalized == toLowerCaseTrim(StringOf(val))
         IN  IF normalized \in {"ativo", "active"} THEN "active"
             ELSE IF normalized \in {"inativo", "inactive"} THEN "inactive"
             ELSE IF normalized \in {"exploratório", "exploratorio", "exploratory"}
                  THEN "exploratory"
             ELSE IF normalized \in {"declínio", "declining", "em declínio"} THEN "declining"
             ELSE StringOf(val)

\* String(val).replace(',', '.').replace(/[^\d.-]/g, '') on the strings the
\* rows below carry
CleanedNumber ==
    ("" :> "") @@ ("abc" :> "") @@ ("91" :> "91") @@ ("90,0" :> "90.0") @@ ("45 m" :> "45")
    @@ ("-5" :> "-5") @@ ("7" :> "7")

\* parseFloat on the cleaned strings
parseFloat ==
    ("" :> JSNaN) @@ ("91" :> JSNum(91)) @@ ("90.0" :> JSNum(90)) @@ ("45" :> JSNum(45))
    @@ ("-5" :> JSNum(-5)) @@ ("7" :> JSNum(7))

parseNumber(val) ==
    IF val = JSNull \/ val = JSUndef THEN JSNull
    ELSE IF val.t \in {"number", "NaN"} THEN val
    ELSE LET num == parseFloat[CleanedNumber[StringOf(val)]]
         IN  IF num = JSNaN THEN JSNull ELSE num

\* new Date(val), as an ISO day or NaN, on the strings the rows below carry
DateOf == ("2024-01-15" :> JSStr("2024-01-15")) @@ ("x" :> JSNaN)

parseDate(val) ==
    IF ~Truthy(val) THEN JSNull
    ELSE LET date == DateOf[val.s]
         IN  IF date = JSNaN THEN JSNull ELSE date

\* a < b and a > b on numbers: false as soon as one side is NaN
Less(a, b) == a.t = "number" /\ b.t = "number" /\ a.n < b.n
Greater(a, b) == Less(b, a)

\* x || 0
OrZero(x) == IF Truthy(x) THEN x ELSE JSNum(0)

\* errors.push(message) when the condition holds
Push(condition, message) == IF condition THEN <<message>> ELSE <<>>

ErrName == "Nome do poço é obrigatório"
ErrBlock == "Bloco é obrigatório"
ErrField == "Campo é obrigatório"
ErrProvince == "Província é obrigatória"
ErrLatitude == "Latitude inválida"
ErrLongitude == "Longitude inválida"
ErrDepth == "Profundidade inválida"
ErrType == "Tipo deve ser: petróleo, gás ou misto"
ErrStatus == "Status deve ser: ativo, inativo, exploratório ou declínio"
ErrWlbrId == "Wellbore ID é obrigatório"
ErrProductionDate == "Data de produção é obrigatória"

WellTypes == {"oil", "gas", "mixed"}
WellStatuses == {"active", "inactive", "exploratory", "declining"}

RowOutcome(rowIndex, data, errors, original) ==
    [row |-> rowIndex + 1, data |-> data, errors |-> errors, original |-> original]

parseWellsRow_nameOptional(row, columns, rowIndex) ==
    LET mapped(field) == Mapped(row, columns, "wells", field)
        latitude == parseNumber(mapped("latitude"))
        longitude == parseNumber(mapped("longitude"))
        depth == parseNumber(mapped("depth"))
        type == normalizeType(mapped("type"))
        status == normalizeStatus(mapped("status"))
        errors ==
            Push(~Truthy(mapped("block")), ErrBlock)
            \o Push(~Truthy(mapped("field")), ErrField)
            \o Push(~Truthy(mapped("province")), ErrProvince)
            \o Push(latitude = JSNull \/ Less(latitude, JSNum(-90))
                       \/ Greater(latitude, JSNum(90)), ErrLatitude)
            \o Push(longitude = JSNull \/ Less(longitude, JSNum(-180))
                       \/ Greater(longitude, JSNum(180)), ErrLongitude)
            \o Push(depth = JSNull \/ Less(depth, JSNum(0)), ErrDepth)
            \o Push(type \notin WellTypes, ErrType)
            \o Push(status \notin WellStatuses, ErrStatus)
    IN  IF Len(errors) = 0
        THEN RowOutcome(rowIndex,
                 [name |-> StringOf(mapped("name")), block |-> StringOf(mapped("block")),
                  field |-> StringOf(mapped("field")),
                  province |-> StringOf(mapped("province")),
                  latitude |-> latitude, longitude |-> longitude, depth |-> depth,
                  type |-> type,
                  estimated_reserves |-> OrZero(parseNumber(mapped("estimated_reserves"))),
                  daily_production |-> OrZero(parseNumber(mapped("daily_production"))),
                  production_start_date |-> parseDate(mapped("production_start_date")),
                  status |-> status,
                  decline_rate |-> OrZero(parseNumber(mapped("decline_rate")))],
                 <<>>, Original(row, columns))
        ELSE RowOutcome(rowIndex, JSNull, errors, Original(row, columns))

parseWellsRow(row, columns, rowIndex) ==
    LET mapped(field) == Mapped(row, columns, "wells", field)
        latitude == parseNumber(mapped("latitude"))
        longitude == parseNumber(mapped("longitude"))
        depth == parseNumber(mapped("depth"))
        type == normalizeType(mapped("type"))
        status == normalizeStatus(mapped("status"))
        errors ==
            Push(~Truthy(mapped("name")), ErrName)
            \o Push(~Truthy(mapped("block")), ErrBlock)
            \o Push(~Truthy(mapped("field")), ErrField)
            \o Push(~Truthy(mapped("province")), ErrProvince)
            \o Push(latitude = JSNull \/ Less(latitude, JSNum(-90))
                       \/ Greater(latitude, JSNum(90)), ErrLatitude)
            \o Push(longitude = JSNull \/ Less(longitude, JSNum(-180))
                       \/ Greater(longitude, JSNum(180)), ErrLongitude)
            \o Push(depth = JSNull \/ Less(depth, JSNum(0)), ErrDepth)
            \o Push(type \notin WellTypes, ErrType)
            \o Push(status \notin WellStatuses, ErrStatus)
    IN  IF Len(errors) = 0
        THEN RowOutcome(rowIndex,
                 [name |-> StringOf(mapped("name")), block |-> StringOf(mapped("block")),
                  field |-> StringOf(mapped("field")),
                  province |-> StringOf(mapped("province")),
                  latitude |-> latitude, longitude |-> longitude, depth |-> depth,
                  type |-> type,
                  estimated_reserves |-> OrZero(parseNumber(mapped("estimated_reserves"))),
                  daily_production |-> OrZero(parseNumber(mapped("daily_production"))),
                  production_start_date |-> parseDate(mapped("production_start_date")),
                  status |-> status,
                  decline_rate |-> OrZero(parseNumber(mapped("decline_rate")))],
                 <<>>, Original(row, columns))
        ELSE RowOutcome(rowIndex, JSNull, errors, Original(row, columns))

parseProductionRow(row, columns, rowIndex) ==
    LET mapped(field) == Mapped(row, columns, "production", field)
        wlbrId == mapped("wlbr_id")
        productionDate == parseDate(mapped("production_date"))
        volume(field) == OrZero(parseNumber(mapped(field)))
        text(field) == IF Truthy(mapped(field)) THEN JSStr(StringOf(mapped(field))) ELSE JSNull
        errors ==
            Push(~Truthy(wlbrId), ErrWlbrId)
            \o Push(~Truthy(productionDate), ErrProductionDate)
    IN  IF Len(errors) = 0
        THEN RowOutcome(rowIndex,
                 [wlbr_id |-> StringOf(wlbrId), wlbr_nm |-> text("wlbr_nm"),
                  cmpl_id |-> text("cmpl_id"), production_date |-> productionDate,
                  oil_volume |-> volume("oil_volume"), water_volume |-> volume("water_volume"),
                  gas_volume |-> volume("gas_volume"), glg |-> volume("glg"),
                  hours_produced |-> volume("hours_produced"),
                  choke_size |-> volume("choke_size"), bhp |-> volume("bhp"),
                  bht |-> volume("bht"), whp |-> volume("whp"), wht |-> volume("wht"),
                  chp |-> volume("chp")],
                 <<>>, Original(row, columns))
        ELSE RowOutcome(rowIndex, JSNull, errors, Original(row, columns))

\* c.toLowerCase(), letter by letter
LowerOf ==
    ("A" :> "a") @@ ("B" :> "b") @@ ("C" :> "c") @@ ("D" :> "d") @@ ("E" :> "e") @@ ("F" :> "f")
    @@ ("G" :> "g") @@ ("H" :> "h") @@ ("I" :> "i") @@ ("J" :> "j") @@ ("K" :> "k")
    @@ ("L" :> "l") @@ ("M" :> "m") @@ ("N" :> "n") @@ ("O" :> "o") @@ ("P" :> "p")
    @@ ("Q" :> "q") @@ ("R" :> "r") @@ ("S" :> "s") @@ ("T" :> "t") @@ ("U" :> "u")
    @@ ("V" :> "v") @@ ("W" :> "w") @@ ("X" :> "x") @@ ("Y" :> "y") @@ ("Z" :> "z")
    @@ ("Ç" :> "ç")

RECURSIVE toLowerCase(_)
toLowerCase(c) ==
    IF c = "" THEN ""
    ELSE LET first == SubSeq(c, 1, 1)
         IN  (IF first \in DOMAIN LowerOf THEN LowerOf[first] ELSE first)
                 \o toLowerCase(SubSeq(c, 2, Len(c)))

\* col.includes(ind)
includes(col, ind) ==
    \E i \in 1..(Len(col) - Len(ind) + 1) : SubSeq(col, i, i + Len(ind) - 1) = ind

productionIndicators ==
    <<"oil", "gas", "water", "daytime", "wlbr_id", "cmpl_id", "bhp", "whp", "choke">>
wellIndicators ==
    <<"latitude", "longitude", "block", "field", "province", "poço", "poco", "bloco", "campo">>

\* indicators.filter(ind => normalized.some(col => col.includes(ind))).length
Matches(indicators, normalized) ==
    Cardinality({k \in 1..Len(indicators) :
                    \E j \in 1..Len(normalized) : includes(normalized[j], indicators[k])})

\* mutant: a tie goes to production
detectDataType_tieIsProduction(columns) ==
    LET normalized == [j \in 1..Len(columns) |-> toLowerCase(columns[j])]
    IN  IF Matches(productionIndicators, normalized) >= Matches(wellIndicators, normalized)
        THEN "production" ELSE "wells"

detectDataType(columns) ==
    LET normalized == [j \in 1..Len(columns) |-> toLowerCase(columns[j])]
        productionMatches == Matches(productionIndicators, normalized)
        wellMatches == Matches(wellIndicators, normalized)
    IN  IF productionMatches > wellMatches THEN "production" ELSE "wells"

\* The type detection of the parse handlers, on the column names of a table.
detect_columns ==
    /\ resp.op = "columns"
    /\ resp' = [resp EXCEPT !.op = "dataType", !.dataType = detectDataType(resp.columns)]
    /\ UNCHANGED <<chunkSessions, fileCache, chunkDirs, chunkParts, uploadFiles, pool, now, outOfOrder, client>>

\* The step of the parse loops: one row of the table through the parser of
\* the table's data type, its outcome pushed on the rows of the response.
parse_row ==
    /\ resp.op = "row"
    /\ LET input == resp.rowInput
           result == IF input.dataType = "production"
                     THEN parseProductionRow(input.row, input.columns, input.rowIndex)
                     ELSE parseWellsRow(input.row, input.columns, input.rowIndex)
       IN  resp' = [resp EXCEPT !.op = "rows", !.rows = <<result>>]
    /\ UNCHANGED <<chunkSessions, fileCache, chunkDirs, chunkParts, uploadFiles, pool, now, outOfOrder, client>>

----------------------------------------------------------------------------
(* Tables: what the reader finds in a file, and the two parse loops *)

\* a wells row with these three cells, its other cells valid
WellsRowOf(name, latitude, depth) ==
    ("Nome" :> name) @@ ("bloco" :> JSStr("B")) @@ ("campo" :> JSStr("F"))
    @@ ("provincia" :> JSStr("P")) @@ ("lat" :> latitude) @@ ("long" :> JSNum(180))
    @@ ("depth" :> depth) @@ ("tipo" :> JSStr(" Oil ")) @@ ("estado" :> JSStr("ATIVO"))

ProductionRowOf(wlbrId, date) ==
    ("wlbr_id" :> wlbrId) @@ ("daytime" :> date) @@ ("oil" :> JSNum(7))

\* a wells table of five rows, the second and the fourth invalid
WellsTable ==
    [columns |-> <<"Nome", "bloco", "campo", "provincia", "lat", "long", "depth", "tipo",
                   "estado">>,
     data |-> <<WellsRowOf(JSStr("W1"), JSNum(-90), JSNum(0)),
                WellsRowOf(JSUndef, JSNum(0), JSNum(0)),
                WellsRowOf(JSStr("W1"), JSStr("90,0"), JSStr("45 m")),
                WellsRowOf(JSStr("W1"), JSNum(0), JSNum(-1)),
                WellsRowOf(JSStr("W1"), JSNum(0), JSNum(0))>>]

\* a production table of three rows, the first invalid
ProductionTable ==
    [columns |-> <<"wlbr_id", "daytime", "oil">>,
     data |-> <<ProductionRowOf(JSNum(0), JSStr("2024-01-15")),
                ProductionRowOf(JSStr("W"), JSStr("2024-01-15")),
                ProductionRowOf(JSNum(5), JSStr("2024-01-15"))>>]

EmptyTable == [columns |-> <<>>, data |-> <<>>]

\* new MDBReader(buffer).getTable(tableName), when neither throws: the table
\* is what the bytes of the file hold.  Two files hold the tables above, every
\* other file a table without columns or rows.
WellsFile == <<3>>
ProductionFile == <<4>>

ReaderTable(buffer) ==
    IF buffer = WellsFile THEN WellsTable
    ELSE IF buffer = ProductionFile THEN ProductionTable
    ELSE EmptyTable

\* const { offset = 0, limit = 1000 } = req.body
DefaultOffset == 0
DefaultLimit == 1000
OrDefault(raw, default) == IF raw = JSUndef THEN default ELSE raw.n

\* where Array.prototype.slice puts a bound: counted from the end when
\* negative, and kept within the array
SliceBound(bound, length) ==
    IF bound < 0 THEN (IF length + bound < 0 THEN 0 ELSE length + bound)
    ELSE Min(bound, length)

\* mutant: the page always starts at the first row
Slice_fromStart(allData, start, end) == SubSeq(allData, 1, SliceBound(end, Len(allData)))

\* allData.slice(start, end)
Slice(allData, start, end) ==
    SubSeq(allData, SliceBound(start, Len(allData)) + 1, SliceBound(end, Len(allData)))

\* dataType === 'production' ? parseProductionRow(...) : parseWellsRow(...)
ParseRowAs(dataType, row, columns, rowIndex) ==
    IF dataType = "production" THEN parseProductionRow(row, columns, rowIndex)
    ELSE parseWellsRow(row, columns, rowIndex)

\* mutant: the rows of a page are numbered from the start of the page
GlobalIndex_local(offset, i) == i

\* const globalIndex = offset + i
GlobalIndex(offset, i) == offset + i

\* the parse loop of /parse-table-batch over the sliced rows
ParsePage(dataType, slicedData, columns, offset) ==
    [k \in 1..Len(slicedData) |->
        ParseRowAs(dataType, slicedData[k], columns, GlobalIndex(offset, k - 1))]

\* mutant: a page that ends exactly at the last row still reports more
HasMore_inclusive(offset, returned, totalRows) == offset + returned <= totalRows

\* const hasMore = offset + slicedData.length < totalRows
HasMore(offset, returned, totalRows) == offset + returned < totalRows

\* the fields of the 200 answer of /parse-table-batch
BatchAnswer(reply, buffer, offsetRaw, limitRaw) ==
    LET offset == OrDefault(offsetRaw, DefaultOffset)
        limit == OrDefault(limitRaw, DefaultLimit)
        table == ReaderTable(buffer)
        columns == table.columns
        totalRows == Len(table.data)
        slicedData == Slice(table.data, offset, offset + limit)
        dataType == detectDataType(columns)
    IN  [reply EXCEPT !.columns = columns, !.dataType = dataType, !.totalRows = totalRows,
                      !.offset = offset, !.limit = limit,
                      !.rows = ParsePage(dataType, slicedData, columns, offset),
                      !.hasMore = HasMore(offset, Len(slicedData), totalRows)]

\* if (result.data)
HasData(result) == result.data # JSNull
NoData(result) == ~HasData(result)

\* mutant: the rows that fail validation are dropped
FailedOf_dropped(results) == <<>>

\* the results the loop of /parse-table pushes on failed
FailedOf(results) == SelectSeq(results, NoData)

\* the fields of the 200 answer of /parse-table
TableAnswer(reply, buffer) ==
    LET table == ReaderTable(buffer)
        columns == table.columns
        data == table.data
        dataType == detectDataType(columns)
        results == [k \in 1..Len(data) |-> ParseRowAs(dataType, data[k], columns, k - 1)]
    IN  [reply EXCEPT !.dataType = dataType, !.totalRows = Len(data),
                      !.success = SelectSeq(results, HasData),
                      !.failed = FailedOf(results)]

----------------------------------------------------------------------------
(* File sessions: /list-tables, /parse-table-batch, /parse-table,            *)
(* /clear-session                                                            *)

\* the 64-bit random prefixes multer's diskStorage gives an uploaded file
TempIds == {"t1", "t2"}
\* the originalname of an uploaded file
UploadName == <<"f">>
\* `${uniqueSuffix}-${file.originalname}` in the uploads directory
TempPath(tmp) == [id |-> tmp, name |-> UploadName]

ErrNoFile == "Arquivo nao fornecido"
ErrNoTable == "Nome da tabela nao fornecido"
ErrNoSession == "Sessao nao encontrada. Faca upload novamente."
ErrFileGone == "Arquivo da sessao nao encontrado."
ErrFileGoneRetry == "Arquivo da sessao nao encontrado. Faca upload novamente."
ErrNoFileOrSession == "Arquivo nao fornecido. Sessao pode ter expirado - faca upload novamente."
ErrSessionNotFound == "Session not found"

SessionReply(op, sessionId, status, error) ==
    [Reply(op, NoId, status, error) EXCEPT !.sessionId = sessionId]

\* fileCache.has(sessionId), behind the `sessionId &&` test
FileSessionKnown(sessionId) == sessionId # NoId /\ sessionId \in DOMAIN fileCache

\* mutant: the access does not touch the session's timestamp
Touch_noRefresh(cache, sessionId) == cache

\* cached.timestamp = Date.now()
Touch(cache, sessionId) == [cache EXCEPT ![sessionId].timestamp = now]

\* POST /list-tables: upload.single('file') has stored the file on disk
list_tables(file, readerOk) ==
    IF ~file.present
    THEN /\ resp' = SessionReply("list-tables", NoId, 400, ErrNoFile)
         /\ UNCHANGED <<chunkSessions, fileCache, chunkDirs, chunkParts, uploadFiles, pool, now, outOfOrder, client>>
    ELSE \E tmp \in TempIds \cap pool, sessionId \in SessionIds \cap pool :
            /\ uploadFiles' = MapSet(uploadFiles, TempPath(tmp), file.buffer)
            /\ fileCache' = MapSet(fileCache, sessionId,
                   [filePath |-> TempPath(tmp), filename |-> UploadName, timestamp |-> now])
            /\ pool' = pool \ {tmp, sessionId}
            /\ resp' = IF readerOk
                       THEN SessionReply("list-tables", sessionId, 200, "")
                       ELSE SessionReply("list-tables", NoId, 500, ErrReader)
            /\ UNCHANGED <<chunkSessions, chunkDirs, chunkParts, now, outOfOrder, client>>

\* POST /parse-table-batch
parse_table_batch(tableName, sessionId, offset, limit, readerOk) ==
    IF ~Truthy(tableName)
    THEN /\ resp' = SessionReply("parse-table-batch", sessionId, 400, ErrNoTable)
         /\ UNCHANGED <<chunkSessions, fileCache, chunkDirs, chunkParts, uploadFiles, pool, now, outOfOrder, client>>
    ELSE IF ~FileSessionKnown(sessionId)
    THEN /\ resp' = SessionReply("parse-table-batch", sessionId, 400, ErrNoSession)
         /\ UNCHANGED <<chunkSessions, fileCache, chunkDirs, chunkParts, uploadFiles, pool, now, outOfOrder, client>>
    ELSE /\ fileCache' = Touch(fileCache, sessionId)
         /\ resp' = IF fileCache[sessionId].filePath \notin DOMAIN uploadFiles
                    THEN SessionReply("parse-table-batch", sessionId, 400, ErrFileGone)
                    ELSE IF ~readerOk
                    THEN SessionReply("parse-table-batch", sessionId, 500, ErrReader)
                    ELSE BatchAnswer(SessionReply("parse-table-batch", sessionId, 200, ""),
                                     uploadFiles[fileCache[sessionId].filePath], offset, limit)
         /\ UNCHANGED <<chunkSessions, chunkDirs, chunkParts, uploadFiles, pool, now, outOfOrder, client>>

\* POST /parse-table: upload.single('file') stores a file the request carries
\* before the handler runs
parse_table(tableName, sessionId, file, readerOk) ==
    \E tmp \in (IF file.present THEN TempIds \cap pool ELSE {NoId}) :
        LET stored == IF file.present
                      THEN MapSet(uploadFiles, TempPath(tmp), file.buffer)
                      ELSE uploadFiles
        IN
        /\ pool' = pool \ {tmp}
        /\ UNCHANGED <<chunkSessions, chunkDirs, chunkParts, now, outOfOrder, client>>
        /\ IF ~Truthy(tableName)
           THEN /\ resp' = SessionReply("parse-table", sessionId, 400, ErrNoTable)
                /\ uploadFiles' = stored
                /\ UNCHANGED fileCache
           ELSE IF FileSessionKnown(sessionId)
           THEN /\ fileCache' = Touch(fileCache, sessionId)
                /\ uploadFiles' = stored
                /\ resp' = IF fileCache[sessionId].filePath \notin DOMAIN uploadFiles
                           THEN SessionReply("parse-table", sessionId, 400, ErrFileGoneRetry)
                           ELSE IF ~readerOk
                           THEN SessionReply("parse-table", sessionId, 500, ErrReader)
                           ELSE TableAnswer(SessionReply("parse-table", sessionId, 200, ""),
                                            uploadFiles[fileCache[sessionId].filePath])
           ELSE IF file.present
           THEN \* the uploaded file is read, then unlinked, then parsed
                /\ uploadFiles' = uploadFiles
                /\ resp' = IF ~readerOk
                           THEN SessionReply("parse-table", sessionId, 500, ErrReader)
                           ELSE TableAnswer(SessionReply("parse-table", sessionId, 200, ""),
                                            file.buffer)
                /\ UNCHANGED fileCache
           ELSE /\ resp' = SessionReply("parse-table", sessionId, 400, ErrNoFileOrSession)
                /\ uploadFiles' = uploadFiles
                /\ UNCHANGED fileCache

\* mutant: the session entry is dropped but its file is left on disk
Unlink_keepsFile(files, filePath) == files

\* fs.unlinkSync(filePath) behind fs.existsSync(filePath)
Unlink(files, filePath) == [f \in DOMAIN files \ {filePath} |-> files[f]]

\* POST /clear-session
clear_session(sessionId, fault) ==
    IF FileSessionKnown(sessionId)
    THEN /\ uploadFiles' = IF fault.kind = "rm"  \* unlinkSync threw: only logged
                           THEN uploadFiles
                           ELSE Unlink(uploadFiles, fileCache[sessionId].filePath)
         /\ fileCache' = MapDelete(fileCache, sessionId)
         /\ resp' = SessionReply("clear-session", sessionId, 200, "")
         /\ UNCHANGED <<chunkSessions, chunkDirs, chunkParts, pool, now, outOfOrder, client>>
    ELSE /\ resp' = SessionReply("clear-session", sessionId, 200, ErrSessionNotFound)
         /\ UNCHANGED <<chunkSessions, fileCache, chunkDirs, chunkParts, uploadFiles, pool, now, outOfOrder, client>>

\* A file of the uploads directory disappears under the server (the case the
\* handlers test with fs.existsSync(cached.filePath)).
FileVanishes(filePath) ==
    /\ filePath \in DOMAIN uploadFiles
    /\ uploadFiles' = Unlink(uploadFiles, filePath)
    /\ UNCHANGED <<chunkSessions, fileCache, chunkDirs, chunkParts, pool, now, resp, outOfOrder, client>>

(* The expiry sweep of setInterval, on a tick at time now.  failFiles and    *)
(* failDirs: the paths whose unlinkSync / rmSync throws on this tick.        *)

\* mutant: the age of a file session is taken the wrong way round
FileSessionExpired_reversed(sessionId) == fileCache[sessionId].timestamp - now > SESSION_TIMEOUT

FileSessionExpired(sessionId) == now - fileCache[sessionId].timestamp > SESSION_TIMEOUT
\* mutant: an upload is evicted as soon as its age reaches the TTL
ChunkSessionExpired_atTTL(uploadId) == now - chunkSessions[uploadId].createdAt >= CHUNK_TIMEOUT

ChunkSessionExpired(uploadId) == now - chunkSessions[uploadId].createdAt > CHUNK_TIMEOUT

\* mutant: the entry is deleted inside the try, so a failed deletion keeps it
Sweep_keepsEntryOnFailure(failFiles, failDirs) ==
    LET expiredFiles == {sid \in DOMAIN fileCache : FileSessionExpired(sid)}
        expiredUploads == {u \in DOMAIN chunkSessions : ChunkSessionExpired(u)}
        unlinked == {fileCache[sid].filePath : sid \in expiredFiles} \ failFiles
        removed == {chunkSessions[u].dirPath : u \in expiredUploads} \ failDirs
        keptFiles == {sid \in expiredFiles : fileCache[sid].filePath \in failFiles}
        keptUploads == {u \in expiredUploads : chunkSessions[u].dirPath \in failDirs}
    IN
    /\ uploadFiles' = [f \in DOMAIN uploadFiles \ unlinked |-> uploadFiles[f]]
    /\ fileCache' = [sid \in DOMAIN fileCache \ (expiredFiles \ keptFiles) |-> fileCache[sid]]
    /\ chunkDirs' = chunkDirs \ removed
    /\ chunkParts' = [p \in {q \in DOMAIN chunkParts : q[1] \notin removed} |-> chunkParts[p]]
    /\ chunkSessions' = [u \in DOMAIN chunkSessions \ (expiredUploads \ keptUploads) |-> chunkSessions[u]]
    /\ resp' = [NoResp EXCEPT !.op = "sweep", !.expired = expiredFiles \cup expiredUploads]
    /\ UNCHANGED <<pool, now, outOfOrder, client>>

Sweep(failFiles, failDirs) ==
    LET expiredFiles == {sid \in DOMAIN fileCache : FileSessionExpired(sid)}
        expiredUploads == {u \in DOMAIN chunkSessions : ChunkSessionExpired(u)}
        unlinked == {fileCache[sid].filePath : sid \in expiredFiles} \ failFiles
        removed == {chunkSessions[u].dirPath : u \in expiredUploads} \ failDirs
    IN
    /\ uploadFiles' = [f \in DOMAIN uploadFiles \ unlinked |-> uploadFiles[f]]
    /\ fileCache' = [sid \in DOMAIN fileCache \ expiredFiles |-> fileCache[sid]]
    /\ chunkDirs' = chunkDirs \ removed
    /\ chunkParts' = [p \in {q \in DOMAIN chunkParts : q[1] \notin removed} |-> chunkParts[p]]
    /\ chunkSessions' = [u \in DOMAIN chunkSessions \ expiredUploads |-> chunkSessions[u]]
    /\ resp' = [NoResp EXCEPT !.op = "sweep", !.expired = expiredFiles \cup expiredUploads]
    /\ UNCHANGED <<pool, now, outOfOrder, client>>

(* The clock *)

Tick(d) ==
    /\ now + d <= MaxNow
    /\ now' = now + d
    /\ UNCHANGED <<chunkSessions, fileCache, chunkDirs, chunkParts, uploadFiles, pool, resp, outOfOrder, client>>

----------------------------------------------------------------------------
(* Inputs *)

SizeInputs == {JSNum(100)}
\* totalChunks of /upload-init (JSON): absent, negative, or 1..MaxIndex+1
InitTotalInputs == {JSUndef, JSNum(-1)} \cup {JSNum(k) : k \in 1..(MaxIndex + 1)}
\* index and totalChunks of /upload-chunk (multipart form fields: strings)
ChunkIndexInputs == {JSStr("-1"), JSStr("01")} \cup {JSStr(Numerals[i + 1]) : i \in 0..MaxIndex}
ChunkTotalInputs == {JSUndef} \cup {JSStr(Numerals[k + 1]) : k \in 1..(MaxIndex + 1)}

\* the system calls that may throw on a faulty disk
Faults == {NoFault, Fault("open", 0), Fault("rm", 0), Fault("readFinal", 0), Fault("truncate", 0)}
              \cup {Fault(kind, i) : kind \in {"read", "write"}, i \in 0..MaxIndex}

NextOver(requestIds, initTotals, indexInputs, chunkTotals, files, faults, tickSteps) ==
    \/ \E filename \in FilenameInputs, size \in SizeInputs, totalChunks \in initTotals :
          upload_init(filename, size, totalChunks)
    \/ \E uploadId \in requestIds : upload_status(uploadId)
    \/ \E uploadId \in requestIds, indexRaw \in indexInputs,
          totalChunksRaw \in chunkTotals, file \in files, fault \in faults :
          upload_chunk(uploadId, indexRaw, totalChunksRaw, file, fault)
    \/ \E uploadId \in requestIds, fault \in faults, readerOk \in BOOLEAN :
          upload_complete(uploadId, fault, readerOk)
    \/ \E uploadId \in requestIds, fault \in faults : upload_abort(uploadId, fault)
    \/ \E failFiles \in (IF faults = {NoFault} THEN {{}} ELSE SUBSET DOMAIN uploadFiles),
          failDirs \in (IF faults = {NoFault} THEN {{}} ELSE SUBSET chunkDirs) :
          Sweep(failFiles, failDirs)
    \/ \E d \in tickSteps : Tick(d)

\* One upload on a reliable disk, the clock jumping past the chunk-upload TTL.
Next == NextOver({NoId, "u1"}, InitTotalInputs, ChunkIndexInputs, ChunkTotalInputs,
                 ChunkFiles, {NoFault}, {CHUNK_TIMEOUT + 1})

Spec == Init /\ [][Next]_vars

\* One upload of two chunks on a disk whose system calls may throw.
NextIO == NextOver({"u1"}, {JSNum(2)}, {JSStr("0"), JSStr("1")}, {JSStr("2")},
                   {File(<<1>>), File(<<2>>)}, Faults, {CHUNK_TIMEOUT + 1})

SpecIO == Init /\ [][NextIO]_vars

\* Two uploads of one chunk each, side by side, on a reliable disk.
NextFrame == NextOver({"u1", "u2"}, {JSUndef, JSNum(1)}, {JSStr("0")}, {JSStr("1")},
                      ChunkFiles, {NoFault}, {CHUNK_TIMEOUT + 1})

SpecFrame == InitOver({"u1", "u2", "s1", "s2"}) /\ [][NextFrame]_vars

\* Two uploads of one chunk each, on a disk whose deletions may throw.
NextSweepIO == NextOver({"u1", "u2"}, {JSNum(1)}, {JSStr("0")}, {JSStr("1")},
                        {File(<<1>>)}, {NoFault, Fault("rm", 0)}, {CHUNK_TIMEOUT + 1})

SpecSweepIO == InitOver({"u1", "u2", "s1", "s2"}) /\ [][NextSweepIO]_vars

\* the instants on either side of each TTL
SweepInstants == {0, 1, SESSION_TIMEOUT, SESSION_TIMEOUT + 1, CHUNK_TIMEOUT, CHUNK_TIMEOUT + 1}

\* File sessions opened by /list-tables, the clock stopping on either side of
\* the file-session TTL and of twice the TTL.
TableNameInputs == {JSUndef, JSStr("wells")}

NextFiles ==
    \/ \E file \in {NoFile, File(<<1>>)}, readerOk \in BOOLEAN : list_tables(file, readerOk)
    \/ \E tableName \in TableNameInputs, sessionId \in {NoId} \cup SessionIds, readerOk \in BOOLEAN :
          parse_table_batch(tableName, sessionId, JSUndef, JSUndef, readerOk)
    \/ \E tableName \in TableNameInputs, sessionId \in {NoId} \cup SessionIds,
          file \in {NoFile, File(<<2>>)}, readerOk \in BOOLEAN :
          parse_table(tableName, sessionId, file, readerOk)
    \/ \E sessionId \in {NoId} \cup SessionIds, fault \in {NoFault, Fault("rm", 0)} :
          clear_session(sessionId, fault)
    \/ \E filePath \in DOMAIN uploadFiles : FileVanishes(filePath)
    \/ Sweep({}, {})
    \/ \E t \in SweepInstants : t > now /\ Tick(t - now)

SpecFiles == InitOver({"s1", "s2", "t1", "t2"}) /\ [][NextFiles]_vars

\* offset and limit of /parse-table-batch (JSON): absent, or a number
OffsetInputs == {JSUndef, JSNum(0), JSNum(2), JSNum(3), JSNum(5), JSNum(7)}
LimitInputs == {JSUndef, JSNum(0), JSNum(2), JSNum(3), JSNum(10)}

\* One file session on a wells table or on a production table, read page by
\* page and in one piece.
NextTables ==
    \/ \E file \in {File(WellsFile), File(ProductionFile)}, readerOk \in BOOLEAN :
          list_tables(file, readerOk)
    \/ \E sessionId \in {"s1"}, offset \in OffsetInputs, limit \in LimitInputs,
          readerOk \in BOOLEAN :
          parse_table_batch(JSStr("wells"), sessionId, offset, limit, readerOk)
    \/ \E sessionId \in {NoId, "s1"}, file \in {NoFile, File(WellsFile), File(ProductionFile)},
          readerOk \in BOOLEAN :
          parse_table(JSStr("wells"), sessionId, file, readerOk)

SpecTables == InitOver({"s1", "t1", "t2"}) /\ [][NextTables]_vars

\* A client that reads the table of a file session page by page with a fixed
\* limit, as the paging contract of /parse-table-batch has it: it starts at
\* offset 0, sends its offset and limit, and on each page it is answered adds
\* the row numbers to what it holds, advances its offset by the number of rows
\* returned and goes on while hasMore is true.
MaxCalls == 7
PageLimits == {1, 2, 3, 10}

\* the client picks a session and a limit and starts at offset 0
StartPaging(sessionId, limit) ==
    /\ client.state # "paging"
    /\ sessionId \in DOMAIN fileCache
    /\ client' = [state |-> "paging", sessionId |-> sessionId, limit |-> limit,
                  offset |-> 0, received |-> <<>>, calls |-> 0]
    /\ UNCHANGED <<chunkSessions, fileCache, chunkDirs, chunkParts, uploadFiles, pool, now, resp,
                   outOfOrder>>

\* the server answers the request the client has in flight
FetchPage ==
    /\ client.state = "paging"
    /\ parse_table_batch(JSStr("wells"), client.sessionId, JSNum(client.offset),
                         JSNum(client.limit), TRUE)

\* the answer in resp is the answer to the request the client has in flight
PageArrived ==
    /\ client.state = "paging"
    /\ resp.op = "parse-table-batch" /\ resp.status = 200
    /\ resp.sessionId = client.sessionId
    /\ resp.offset = client.offset /\ resp.limit = client.limit

\* the client takes the page: it keeps the row numbers, advances by the number
\* of rows returned, and stops when hasMore is false
ReceivePage ==
    /\ PageArrived
    /\ client.calls < MaxCalls
    /\ client' = [client EXCEPT
                     !.received = @ \o [k \in 1..Len(resp.rows) |-> resp.rows[k].row],
                     !.offset = @ + Len(resp.rows),
                     !.calls = @ + 1,
                     !.state = IF resp.hasMore THEN "paging" ELSE "done"]
    /\ UNCHANGED <<chunkSessions, fileCache, chunkDirs, chunkParts, uploadFiles, pool, now, resp,
                   outOfOrder>>

NextPaging ==
    \/ \E file \in {File(WellsFile), File(ProductionFile), File(<<1>>)} : list_tables(file, TRUE)
    \/ \E sessionId \in SessionIds, limit \in PageLimits : StartPaging(sessionId, limit)
    \/ FetchPage
    \/ ReceivePage

\* The client's loop goes on: an answer that has arrived is taken.
SpecPaging ==
    /\ InitOver({"s1", "s2", "t1", "t2"})
    /\ [][NextPaging]_vars
    /\ WF_vars(ReceivePage)

\* One upload of one chunk, the clock stopping on either side of each TTL.
NextSweep ==
    \/ NextOver({"u1"}, {JSNum(1)}, {JSStr("0")}, {JSStr("1")},
                {NoFile, File(<<1>>)}, {NoFault}, {SESSION_TIMEOUT, CHUNK_TIMEOUT})
    \/ \E t \in SweepInstants : t > now /\ Tick(t - now)

SpecSweep == Init /\ [][NextSweep]_vars


\* Time passes: the clock moves on to a later instant, up to the last one the
\* model has.
LiveInstants == SweepInstants \cup {MaxNow}
Advance == \E t \in LiveInstants : t > now /\ Tick(t - now)

\* One upload of one chunk and the file sessions of /list-tables and
\* /upload-complete, read and cleared.
NextLive ==
    \/ NextOver({"u1"}, {JSNum(1)}, {JSStr("0")}, {JSStr("1")},
                {NoFile, File(<<1>>)}, {NoFault}, {SESSION_TIMEOUT, CHUNK_TIMEOUT})
    \/ list_tables(File(<<1>>), TRUE)
    \/ \E sessionId \in SessionIds :
          parse_table_batch(JSStr("wells"), sessionId, JSUndef, JSUndef, TRUE)
    \/ \E sessionId \in SessionIds : clear_session(sessionId, NoFault)
    \/ Advance

\* The timer of setInterval keeps firing the sweep, and time keeps passing.
SpecLive ==
    /\ InitOver({"u1", "s1", "s2", "t1"})
    /\ [][NextLive]_vars
    /\ WF_vars(Sweep({}, {}))
    /\ WF_vars(Advance)

\* Table rows, as the reader hands them to the parse loops: the cells are
\* absent, null, numbers (NaN among them) or strings.
WellsColumns == <<"Nome", "bloco", "campo", "provincia", "lat", "long", "depth", "tipo", "estado">>
ProductionColumns == <<"wlbr_id", "daytime", "oil">>
RowIndexInputs == {0, 1}

NameCells == {JSUndef, JSStr(""), JSStr("W1")}
PlaceCells == {<<JSStr("B"), JSStr("F"), JSStr("P")>>, <<JSUndef, JSStr("F"), JSStr("P")>>,
               <<JSStr("B"), JSNull, JSStr("P")>>, <<JSStr("B"), JSStr("F"), JSStr("")>>}
LatitudeCells == {JSNull, JSNaN, JSNum(-91), JSNum(-90), JSStr("91"), JSStr("90,0")}
LongitudeCells == {JSUndef, JSNaN, JSNum(-181), JSNum(180)}
DepthCells == {JSNull, JSNaN, JSNum(-1), JSNum(0), JSStr("45 m")}
TypeCells == {JSUndef, JSStr(" Oil "), JSStr("Gás"), JSStr("x")}
StatusCells == {JSStr("ATIVO"), JSStr("em declínio"), JSStr("x")}

WellsRows ==
    {("Nome" :> name) @@ ("bloco" :> place[1]) @@ ("campo" :> place[2])
        @@ ("provincia" :> place[3]) @@ ("lat" :> latitude) @@ ("long" :> longitude)
        @@ ("depth" :> depth) @@ ("tipo" :> type) @@ ("estado" :> status) :
        name \in NameCells, place \in PlaceCells, latitude \in LatitudeCells,
        longitude \in LongitudeCells, depth \in DepthCells, type \in TypeCells,
        status \in StatusCells}

ProductionRows ==
    {("wlbr_id" :> wlbrId) @@ ("daytime" :> date) @@ ("oil" :> oil) :
        wlbrId \in {JSUndef, JSNum(0), JSNum(5), JSStr("W")},
        date \in {JSNull, JSStr("2024-01-15"), JSStr("x")},
        oil \in {JSUndef, JSNum(-5), JSStr("abc")}}

\* wells rows that also carry the two volume columns, every other cell valid
WellsVolumeColumns == WellsColumns \o <<"reservas", "produção">>
VolumeCells == {JSUndef, JSNull, JSNaN, JSNum(0), JSNum(7), JSNum(-5),
                JSStr("abc"), JSStr("7"), JSStr("-5")}

WellsVolumeRows ==
    {("Nome" :> JSStr("W1")) @@ ("bloco" :> JSStr("B")) @@ ("campo" :> JSStr("F"))
        @@ ("provincia" :> JSStr("P")) @@ ("lat" :> JSNum(-90)) @@ ("long" :> JSNum(180))
        @@ ("depth" :> JSNum(0)) @@ ("tipo" :> JSStr(" Oil ")) @@ ("estado" :> JSStr("ATIVO"))
        @@ ("reservas" :> reserves) @@ ("produção" :> production) :
        reserves \in VolumeCells, production \in VolumeCells}

RowInput(dataType, columns, row, rowIndex) ==
    [dataType |-> dataType, columns |-> columns, row |-> row, rowIndex |-> rowIndex]

RowInputs ==
    {RowInput("wells", WellsColumns, row, rowIndex) :
        row \in WellsRows, rowIndex \in RowIndexInputs}
    \cup {RowInput("wells", WellsVolumeColumns, row, rowIndex) :
        row \in WellsVolumeRows, rowIndex \in RowIndexInputs}
    \cup {RowInput("production", ProductionColumns, row, rowIndex) :
        row \in ProductionRows, rowIndex \in RowIndexInputs}

\* One row of a table, about to go through its parser.
InitRows ==
    /\ chunkSessions = EmptyMap
    /\ fileCache = EmptyMap
    /\ chunkDirs = {}
    /\ chunkParts = EmptyMap
    /\ uploadFiles = EmptyMap
    /\ pool = {}
    /\ now = 0
    /\ \E input \in RowInputs : resp = [NoResp EXCEPT !.op = "row", !.rowInput = input]
    /\ outOfOrder = FALSE
    /\ client = NoClient

NextRows == parse_row

SpecRows == InitRows /\ [][NextRows]_vars

\* Column names of a table: indicators of either kind, alone, in capitals,
\* inside a longer name, two in one name, and names that hold none.
ColumnNameInputs == {"oil", "water", "daytime", "WLBR_ID", "latitude", "Longitude", "block",
                     "field", "Poço", "gas_oil_ratio", "nome", "lat"}
MaxColumns == 2

ColumnLists == UNION {[1..n -> ColumnNameInputs] : n \in 0..MaxColumns}
                   \cup {<<"oil", "water", "daytime", "wlbr_id">>,
                         <<"latitude", "longitude", "block", "field">>}

\* The column names of one table, about to be classified.
InitColumns ==
    /\ chunkSessions = EmptyMap
    /\ fileCache = EmptyMap
    /\ chunkDirs = {}
    /\ chunkParts = EmptyMap
    /\ uploadFiles = EmptyMap
    /\ pool = {}
    /\ now = 0
    /\ \E columns \in ColumnLists : resp = [NoResp EXCEPT !.op = "columns", !.columns = columns]
    /\ outOfOrder = FALSE
    /\ client = NoClient

NextColumns == detect_columns

SpecColumns == InitColumns /\ [][NextColumns]_vars

----------------------------------------------------------------------------
(* Requests, as steps *)

\* the uploadIds requests name
AnyIds == {NoId} \cup UploadIds

\* a /upload-chunk request on uploadId with exactly these fields (no system call throws)
ChunkStep(uploadId, indexRaw, totalChunksRaw, file) ==
    /\ resp'.op = "upload-chunk" /\ resp'.uploadId = uploadId
    /\ upload_chunk(uploadId, indexRaw, totalChunksRaw, file, NoFault)
\* some /upload-chunk request on uploadId
AnyChunkStep(uploadId) ==
    /\ resp'.op = "upload-chunk" /\ resp'.uploadId = uploadId
    /\ \E indexRaw \in ChunkIndexInputs, totalChunksRaw \in ChunkTotalInputs, file \in ChunkFiles :
        upload_chunk(uploadId, indexRaw, totalChunksRaw, file, NoFault)
\* a /upload-complete request on uploadId (no system call throws)
CompleteStep(uploadId) ==
    /\ resp'.op = "upload-complete" /\ resp'.uploadId = uploadId
    /\ \E readerOk \in BOOLEAN : upload_complete(uploadId, NoFault, readerOk)
\* a /upload-abort request on uploadId (no system call throws)
AbortStep(uploadId) ==
    /\ resp'.op = "upload-abort" /\ resp'.uploadId = uploadId
    /\ upload_abort(uploadId, NoFault)
\* a /upload-status request on uploadId
StatusStep(uploadId) ==
    /\ resp'.op = "upload-status" /\ resp'.uploadId = uploadId
    /\ upload_status(uploadId)

\* the session's totalChunks passes the check of /upload-complete
ValidTotal(uploadId) ==
    /\ IsFinite(ToNumber(chunkSessions[uploadId].totalChunks))
    /\ ToNumber(chunkSessions[uploadId].totalChunks).n > 0
\* the indices in [0, totalChunks) with no stored chunk
MissingIndices(uploadId) ==
    {i \in 0..(ToNumber(chunkSessions[uploadId].totalChunks).n - 1) : <<uploadId, i>> \notin DOMAIN chunkParts}

----------------------------------------------------------------------------
(* C1: complete on a known upload with a valid totalChunks and at least one  *)
(* index of [0,totalChunks) without a stored chunk answers 400 "Chunk        *)
(* ausente", naming the lowest missing index.                                *)
C1_IncompleteNamesLowestMissing ==
    [][\A u \in UploadIds :
          (/\ CompleteStep(u)
           /\ u \in DOMAIN chunkSessions
           /\ ValidTotal(u)
           /\ MissingIndices(u) # {})
          => /\ resp'.op = "upload-complete"
             /\ resp'.status = 400
             /\ resp'.error = ErrChunkMissing
             /\ resp'.missing \in MissingIndices(u)
             /\ \A i \in MissingIndices(u) : resp'.missing <= i]_vars

\* complete was refused for a missing chunk that is not index 0 (chunk 0 is stored)
C1_Witness ==
    /\ resp.op = "upload-complete"
    /\ resp.status = 400
    /\ resp.error = ErrChunkMissing
    /\ resp.missing = 1
    /\ <<resp.uploadId, 0>> \in DOMAIN chunkParts

----------------------------------------------------------------------------
RECURSIVE ConcatAscending(_, _)
\* the bytes of chunks 0, 1, ..., n-1 of an upload, one after the other
ConcatAscending(uploadId, n) ==
    IF n = 0 THEN <<>>
    ELSE ConcatAscending(uploadId, n - 1) \o chunkParts[<<uploadId, n - 1>>]

(* C2: when complete assembles an upload whose chunks 0..totalChunks-1 are   *)
(* all stored, the assembled file holds the chunks' bytes in ascending index *)
(* order, whatever order they arrived in.                                    *)
C2_AssembledInAscendingIndexOrder ==
    [][\A u \in UploadIds :
          (/\ CompleteStep(u)
           /\ u \in DOMAIN chunkSessions
           /\ ValidTotal(u)
           /\ MissingIndices(u) = {})
          => LET path == [id |-> u, name |-> chunkSessions[u].filename]
                 n == ToNumber(chunkSessions[u].totalChunks).n
             IN /\ path \in DOMAIN uploadFiles'
                /\ uploadFiles'[path] = ConcatAscending(u, n)]_vars

\* chunk 1 arrived before chunk 0, with different bytes, and complete succeeded
C2_Witness ==
    /\ outOfOrder
    /\ resp.op = "upload-complete"
    /\ resp.status = 200
    /\ \E path \in DOMAIN uploadFiles :
          /\ path.id = resp.uploadId
          /\ Len(uploadFiles[path]) >= 2
          /\ uploadFiles[path][1] # uploadFiles[path][2]

AssemblyFails(uploadId, fault) ==
    /\ uploadId \in DOMAIN chunkSessions
    /\ ValidTotal(uploadId)
    /\ \/ MissingIndices(uploadId) # {}
       \/ fault.kind = "open"
       \/ /\ fault.kind \in {"read", "write"}
          /\ fault.at < ToNumber(chunkSessions[uploadId].totalChunks).n

C4_FailedAssemblyRegistersNoFileSession ==
    [][resp'.op = "upload-complete" =>
       \A fault \in Faults, readerOk \in BOOLEAN :
          (/\ AssemblyFails(resp'.uploadId, fault)
           /\ upload_complete(resp'.uploadId, fault, readerOk))
          => /\ fileCache' = fileCache
             /\ resp'.status # 200
             /\ \A sid \in DOMAIN fileCache' :
                   fileCache'[sid].filePath.id # resp'.uploadId]_vars

\* a write threw after chunk 0 had been copied: the partial output file is on
\* disk and the file session cache is empty
C4_Witness ==
    /\ resp.op = "upload-complete"
    /\ resp.status = 500
    /\ resp.error = ErrWrite
    /\ \E path \in DOMAIN uploadFiles :
          /\ path.id = resp.uploadId
          /\ Len(uploadFiles[path]) = 1
    /\ fileCache = EmptyMap

(* C5: when complete is rejected because a chunk of [0,totalChunks) is       *)
(* missing, no output file has been created or written in the uploads        *)
(* directory.                                                                *)
C5_NoOutputFileWhenChunkMissing ==
    [][\A u \in UploadIds :
          (CompleteStep(u) /\ resp'.status = 400 /\ resp'.error = ErrChunkMissing)
          => uploadFiles' = uploadFiles]_vars

(* C6: a chunk submitted for an index that is already stored is accepted     *)
(* and the stored chunks stay as they were: a chunk step on a known upload   *)
(* either is answered 200 with the chunk files unchanged, or it is not a     *)
(* well-formed request for a stored index.                                   *)
C6_ResubmittedChunkIsNotRewritten ==
    [][resp'.op = "upload-chunk" /\ resp'.uploadId \in DOMAIN chunkSessions =>
       \/ /\ resp'.status = 200
          /\ chunkParts' = chunkParts
          /\ chunkDirs' = chunkDirs
       \/ \A indexRaw \in ChunkIndexInputs :
             (/\ IsFinite(ToNumber(indexRaw))
              /\ <<resp'.uploadId, ToNumber(indexRaw).n>> \in DOMAIN chunkParts)
             => \A totalChunksRaw \in ChunkTotalInputs :
                   (IsFinite(ToNumber(totalChunksRaw)) /\ ToNumber(totalChunksRaw).n > 0)
                   => \A file \in ChunkFiles :
                         file.present
                         => ~ChunkStep(resp'.uploadId, indexRaw, totalChunksRaw, file)]_vars

\* a chunk was accepted whose bytes differ from the bytes stored for its index
C6_Witness ==
    /\ resp.op = "upload-chunk"
    /\ resp.status = 200
    /\ <<resp.uploadId, resp.index>> \in DOMAIN chunkParts
    /\ chunkParts[<<resp.uploadId, resp.index>>] # resp.sent

(* C7: a chunk, complete or abort request on upload A leaves every other     *)
(* upload B as it was: B's registry entry (directory, filename, totalChunks, *)
(* size, last activity), B's chunk directory and B's stored chunks and their *)
(* bytes.                                                                    *)
C7_OtherUploadsUntouched ==
    [][resp'.op \in {"upload-chunk", "upload-complete", "upload-abort"} =>
       \A b \in DOMAIN chunkSessions :
          (/\ b # resp'.uploadId
           /\ \/ AnyChunkStep(resp'.uploadId)
              \/ CompleteStep(resp'.uploadId)
              \/ AbortStep(resp'.uploadId))
          => /\ b \in DOMAIN chunkSessions'
             /\ chunkSessions'[b] = chunkSessions[b]
             /\ (getChunkDir(b) \in chunkDirs') = (getChunkDir(b) \in chunkDirs)
             /\ \A p \in DOMAIN chunkParts \cup DOMAIN chunkParts' :
                   p[1] = getChunkDir(b)
                   => /\ p \in DOMAIN chunkParts /\ p \in DOMAIN chunkParts'
                      /\ chunkParts'[p] = chunkParts[p]]_vars

\* a chunk of one upload was stored while another upload, with a chunk of
\* other bytes at the same index, was in the registry
C7_Witness ==
    /\ resp.op = "upload-chunk"
    /\ resp.status = 200
    /\ \E b \in DOMAIN chunkSessions :
          /\ b # resp.uploadId
          /\ <<b, resp.index>> \in DOMAIN chunkParts
          /\ <<resp.uploadId, resp.index>> \in DOMAIN chunkParts
          /\ chunkParts[<<b, resp.index>>] # chunkParts[<<resp.uploadId, resp.index>>]

C9_RemovedUploadIsTerminal ==
    [][\A u \in UploadIds :
          (u \notin pool /\ u \notin DOMAIN chunkSessions)
          => /\ u \notin DOMAIN chunkSessions'
             /\ \A p \in DOMAIN chunkParts' : p[1] = u => p \in DOMAIN chunkParts
             /\ (AnyChunkStep(u) =>
                   /\ resp'.status = 400
                   /\ UNCHANGED <<chunkSessions, fileCache, chunkDirs, chunkParts, uploadFiles>>)
             /\ (resp'.op = "upload-chunk" /\ resp'.uploadId = u =>
                   \A indexRaw \in ChunkIndexInputs :
                      (IsFinite(ToNumber(indexRaw)) /\ ToNumber(indexRaw).n >= 0)
                      => \A totalChunksRaw \in ChunkTotalInputs :
                            (IsFinite(ToNumber(totalChunksRaw)) /\ ToNumber(totalChunksRaw).n > 0)
                            => \A file \in ChunkFiles :
                                  ChunkStep(u, indexRaw, totalChunksRaw, file)
                                  => resp'.error = ErrNotFound)
             /\ (CompleteStep(u) =>
                   /\ resp'.status = 400
                   /\ resp'.error = ErrNotFound
                   /\ UNCHANGED <<chunkSessions, fileCache, chunkDirs, chunkParts, uploadFiles>>)
             /\ (StatusStep(u) => resp'.status = 404 /\ resp'.error = ErrNotFound)]_vars

\* a chunk was refused for an upload that had been completed
C9_Witness ==
    /\ resp.op = "upload-chunk"
    /\ resp.status = 400
    /\ resp.error = ErrNotFound
    /\ resp.uploadId \in UploadIds \ pool
    /\ \E sid \in DOMAIN fileCache : fileCache[sid].filePath.id = resp.uploadId

(* C10: a sweep tick at time now evicts an upload exactly when now minus its  *)
(* last activity is more than 2 h (7 200 000 ms), and a file session exactly  *)
(* when now minus its last activity is more than 60 min (3 600 000 ms): at    *)
(* an age of TTL + 1 ms it goes, at an age of TTL or less it stays.           *)
C10_SweepEvictsStrictlyPastTTL ==
    [][(resp'.op = "sweep" /\ Sweep({}, {})) =>
         /\ \A u \in DOMAIN chunkSessions :
               (u \notin DOMAIN chunkSessions')
                  <=> (now - chunkSessions[u].createdAt > 2 * 60 * 60 * 1000)
         /\ \A sid \in DOMAIN fileCache :
               (sid \notin DOMAIN fileCache')
                  <=> (now - fileCache[sid].timestamp > 60 * 60 * 1000)
         /\ DOMAIN chunkSessions' \subseteq DOMAIN chunkSessions
         /\ DOMAIN fileCache' \subseteq DOMAIN fileCache]_vars

\* the sweep evicted an upload whose age was TTL + 1 ms
C10_Witness ==
    /\ resp.op = "sweep"
    /\ resp.expired \cap UploadIds # {}
    /\ now = CHUNK_TIMEOUT + 1

(* C11: when the sweep finds a session expired, its registry entry is gone   *)
(* after the tick whether or not the deletion of its backing file or chunk   *)
(* directory threw, and so is every other expired session's entry.           *)
C11_SweepRemovesEntryDespiteDeleteFailure ==
    [][resp'.op = "sweep" =>
       \/ /\ \A sid \in DOMAIN fileCache :
                now - fileCache[sid].timestamp > SESSION_TIMEOUT => sid \notin DOMAIN fileCache'
          /\ \A u \in DOMAIN chunkSessions :
                now - chunkSessions[u].createdAt > CHUNK_TIMEOUT => u \notin DOMAIN chunkSessions'
       \/ \A failFiles \in SUBSET DOMAIN uploadFiles, failDirs \in SUBSET chunkDirs :
             ~Sweep(failFiles, failDirs)]_vars

\* a tick found two sessions expired; the chunk directory of an evicted upload
\* is still on disk (rmSync threw) and both entries are gone
C11_Witness ==
    /\ resp.op = "sweep"
    /\ Cardinality(resp.expired) >= 2
    /\ \E u \in resp.expired \cap UploadIds : getChunkDir(u) \in chunkDirs
    /\ \A id \in resp.expired : id \notin DOMAIN chunkSessions /\ id \notin DOMAIN fileCache

(* C12: once an upload's totalChunks holds a value (declared at init or       *)
(* adopted from a chunk request), no step changes it while the upload is in   *)
(* the registry, whatever totalChunks a chunk request carries; and while it   *)
(* holds none, an accepted chunk sets it to the value the request carries.    *)
C12_TotalChunksImmutableOnceSet ==
    [][\A u \in DOMAIN chunkSessions \cap DOMAIN chunkSessions' :
          /\ chunkSessions[u].totalChunks # JSNull
                => chunkSessions'[u].totalChunks = chunkSessions[u].totalChunks
          /\ (chunkSessions[u].totalChunks = JSNull
               /\ resp'.op = "upload-chunk" /\ resp'.uploadId = u /\ resp'.status = 200)
                => \E totalChunksRaw \in ChunkTotalInputs :
                      /\ ToNumber(totalChunksRaw).n > 0
                      /\ chunkSessions'[u].totalChunks = ToNumber(totalChunksRaw)]_vars

\* a chunk was accepted on an upload whose declared totalChunks (-1) no chunk
\* request can carry, and the declared value is still there
C12_Witness ==
    /\ resp.op = "upload-chunk"
    /\ resp.status = 200
    /\ resp.uploadId \in DOMAIN chunkSessions
    /\ chunkSessions[resp.uploadId].totalChunks = JSNum(-1)

(* C13: an accepted chunk sets the upload's last activity (createdAt) to the  *)
(* time of the request; and a sweep tick that comes after an accepted chunk   *)
(* of an upload, no more than 2 h after it, keeps the upload's entry, its     *)
(* chunk directory and its chunks.                                            *)
C13_AcceptedChunkKeepsUploadAlive ==
    [][/\ (resp'.op = "upload-chunk" /\ resp'.status = 200 /\ AnyChunkStep(resp'.uploadId))
          => /\ resp'.uploadId \in DOMAIN chunkSessions'
             /\ chunkSessions'[resp'.uploadId].createdAt = now
       /\ (resp'.op = "sweep" /\ Sweep({}, {})
           /\ resp.op = "upload-chunk" /\ resp.status = 200
           /\ resp.uploadId \in DOMAIN chunkSessions
           /\ now - chunkSessions[resp.uploadId].createdAt <= 2 * 60 * 60 * 1000)
          => /\ resp.uploadId \in DOMAIN chunkSessions'
             /\ chunkSessions'[resp.uploadId] = chunkSessions[resp.uploadId]
             /\ getChunkDir(resp.uploadId) \in chunkDirs'
             /\ \A p \in DOMAIN chunkParts :
                   p[1] = getChunkDir(resp.uploadId)
                   => p \in DOMAIN chunkParts' /\ chunkParts'[p] = chunkParts[p]]_vars

\* a chunk was accepted at 60 min + 1 ms and the sweep at 2 h + 1 ms, when an
\* upload not refreshed since time 0 would go, kept the upload and its chunk
C13_Witness ==
    /\ resp.op = "sweep"
    /\ now = CHUNK_TIMEOUT + 1
    /\ \E u \in DOMAIN chunkSessions :
          /\ chunkSessions[u].createdAt = SESSION_TIMEOUT + 1
          /\ <<u, 0>> \in DOMAIN chunkParts

\* a /parse-table-batch or /parse-table request that names a table, on sessionId
ParseStep(sessionId) ==
    /\ resp'.op \in {"parse-table-batch", "parse-table"} /\ resp'.sessionId = sessionId
    /\ \E tableName \in {v \in TableNameInputs : Truthy(v)}, readerOk \in BOOLEAN :
          \/ parse_table_batch(tableName, sessionId, JSUndef, JSUndef, readerOk)
          \/ \E file \in {NoFile, File(<<2>>)} : parse_table(tableName, sessionId, file, readerOk)

(* C14: a parse-table or parse-table-batch request that names a table and a   *)
(* known file session sets the session's timestamp to the time of the         *)
(* request; and a sweep tick that comes after such a request, no more than    *)
(* 60 min after it, keeps the session and its backing file.                   *)
C14_AccessKeepsFileSessionAlive ==
    [][/\ \A sid \in DOMAIN fileCache :
             ParseStep(sid)
             => /\ sid \in DOMAIN fileCache'
                /\ fileCache'[sid].timestamp = now
                /\ fileCache'[sid].filePath = fileCache[sid].filePath
       /\ (resp'.op = "sweep" /\ Sweep({}, {})
           /\ resp.op \in {"parse-table-batch", "parse-table"}
           /\ resp.sessionId \in DOMAIN fileCache
           /\ now - fileCache[resp.sessionId].timestamp <= 60 * 60 * 1000)
          => /\ resp.sessionId \in DOMAIN fileCache'
             /\ fileCache'[resp.sessionId] = fileCache[resp.sessionId]
             /\ \A f \in DOMAIN uploadFiles :
                   f = fileCache[resp.sessionId].filePath
                   => f \in DOMAIN uploadFiles' /\ uploadFiles'[f] = uploadFiles[f]]_vars

\* the sweep at 2 h, when a session not touched since 60 min - 1 ms or before
\* would go, kept a session touched at 60 min, and its file
C14_Witness ==
    /\ resp.op = "sweep"
    /\ now = CHUNK_TIMEOUT
    /\ \E sid \in DOMAIN fileCache :
          /\ fileCache[sid].timestamp = SESSION_TIMEOUT
          /\ fileCache[sid].filePath \in DOMAIN uploadFiles

(* C15: when parse-table or parse-table-batch finds the backing file of a     *)
(* known file session missing, the request fails and the session's entry is   *)
(* removed from the cache.                                                    *)
C15_SessionWithMissingFileIsPurged ==
    [][\A sid \in DOMAIN fileCache :
          (ParseStep(sid) /\ fileCache[sid].filePath \notin DOMAIN uploadFiles)
          => /\ resp'.status = 400
             /\ sid \notin DOMAIN fileCache']_vars

\* a /clear-session request on sessionId (unlinkSync does not throw)
ClearStep(sessionId) ==
    /\ resp'.op = "clear-session" /\ resp'.sessionId = sessionId
    /\ clear_session(sessionId, NoFault)

C17_StatusReportsStoredIndices ==
    [][\A u \in UploadIds :
          StatusStep(u)
          => IF u \in DOMAIN chunkSessions
             THEN LET stored == {p[2] : p \in {q \in DOMAIN chunkParts : q[1] = u}}
                      list == resp'.receivedIndices
                  IN /\ resp'.status = 200
                     /\ resp'.totalChunks = chunkSessions[u].totalChunks
                     /\ {list[k] : k \in 1..Len(list)} = stored
                     /\ \A j, k \in 1..Len(list) : j < k => list[j] < list[k]
                     /\ resp'.received = Len(list)
             ELSE /\ resp'.status = 404
                  /\ resp'.error = ErrNotFound]_vars

\* status listed two indices for an upload whose chunk 1 arrived before chunk 0
C17_Witness ==
    /\ resp.op = "upload-status"
    /\ resp.status = 200
    /\ resp.received = 2
    /\ resp.receivedIndices = <<0, 1>>
    /\ outOfOrder

\* a /upload-init request with this filename
InitStep(filename) ==
    /\ resp'.op = "upload-init"
    /\ \E size \in SizeInputs, totalChunks \in InitTotalInputs :
          upload_init(filename, size, totalChunks)

(* C18: init with a non-empty string filename answers 200 with an uploadId    *)
(* that was not in the registry, adds exactly that entry (created now, with   *)
(* the sanitized filename) and its chunk directory, which holds no chunk;     *)
(* init with a missing, non-string or empty filename answers 400 and creates  *)
(* no entry and no directory.                                                 *)
C18_InitCreatesFreshUpload ==
    [][\A filename \in FilenameInputs :
          InitStep(filename)
          => IF filename.t = "string" /\ filename.chars # <<>>
             THEN LET id == resp'.uploadId
                  IN /\ resp'.status = 200
                     /\ id # NoId
                     /\ id \notin DOMAIN chunkSessions
                     /\ DOMAIN chunkSessions' = DOMAIN chunkSessions \cup {id}
                     /\ \A old \in DOMAIN chunkSessions : chunkSessions'[old] = chunkSessions[old]
                     /\ chunkSessions'[id].createdAt = now
                     /\ chunkSessions'[id].filename = sanitizeFilename(filename.chars)
                     /\ chunkSessions'[id].dirPath \in chunkDirs'
                     /\ chunkSessions'[id].dirPath \notin chunkDirs
                     /\ \A p \in DOMAIN chunkParts' : p[1] # chunkSessions'[id].dirPath
                     /\ chunkParts' = chunkParts
             ELSE /\ resp'.status = 400
                  /\ chunkSessions' = chunkSessions
                  /\ chunkDirs' = chunkDirs]_vars

\* a second upload was opened while the first, with a stored chunk, was in
\* the registry
C18_Witness ==
    /\ resp.op = "upload-init"
    /\ resp.status = 200
    /\ Cardinality(DOMAIN chunkSessions) = 2
    /\ \E p \in DOMAIN chunkParts : p[1] # getChunkDir(resp.uploadId)
    /\ \A p \in DOMAIN chunkParts : p[1] # getChunkDir(resp.uploadId)

----------------------------------------------------------------------------
(* Row outcomes *)

\* the messages of an error list
Messages(errors) == {errors[i] : i \in 1..Len(errors)}

\* C19: every outcome of a row parser, wells or production, carries either a
\* record and an empty error list or no record and a non-empty error list,
\* never both and never neither; and a wells row whose name cell is absent,
\* null or empty yields no record and an error list that contains
\* "Nome do poço é obrigatório".
C19_OutcomeIsRecordOrErrors ==
    resp.op = "rows" =>
        LET input == resp.rowInput
            outcome == resp.rows[1]
        IN  /\ \/ outcome.data # JSNull /\ outcome.errors = <<>>
               \/ outcome.data = JSNull /\ outcome.errors # <<>>
            /\ (input.dataType = "wells" /\ input.row["Nome"] \in {JSUndef, JSNull, JSStr("")})
                   => outcome.data = JSNull /\ ErrName \in Messages(outcome.errors)

\* a wells row that lacks nothing but its name has gone through the parser
C19_Witness ==
    /\ resp.op = "rows"
    /\ resp.rowInput.dataType = "wells"
    /\ resp.rowInput.row["Nome"] = JSUndef
    /\ resp.rows[1].data = JSNull
    /\ resp.rows[1].errors = <<ErrName>>

\* a number within [lo, hi]; NaN is within no range
Within(value, lo, hi) == value.t = "number" /\ lo <= value.n /\ value.n <= hi

\* a number at or above lo
AtLeast(value, lo) == value.t = "number" /\ lo <= value.n

\* C20: every record parseWellsRow emits has its latitude in [-90, 90], its
\* longitude in [-180, 180], its depth at or above 0, its type among oil, gas
\* and mixed and its status among active, inactive, exploratory and declining;
\* and a row whose latitude, longitude or depth is absent or is not a number
\* of its range yields an error and no record.
C20_WellRecordWithinRanges ==
    (resp.op = "rows" /\ resp.rowInput.dataType = "wells") =>
        LET row == resp.rowInput.row
            outcome == resp.rows[1]
            data == outcome.data
        IN  /\ data # JSNull =>
                   /\ Within(data.latitude, -90, 90)
                   /\ Within(data.longitude, -180, 180)
                   /\ AtLeast(data.depth, 0)
                   /\ data.type \in {"oil", "gas", "mixed"}
                   /\ data.status \in {"active", "inactive", "exploratory", "declining"}
            /\ (\/ ~Within(parseNumber(row["lat"]), -90, 90)
                \/ ~Within(parseNumber(row["long"]), -180, 180)
                \/ ~AtLeast(parseNumber(row["depth"]), 0))
                   => data = JSNull /\ outcome.errors # <<>>

\* the cells that hold no number: absent, null, NaN or a string without digits
Unparseable == {JSUndef, JSNull, JSNaN, JSStr("abc")}

\* C21: every record parseWellsRow emits has estimated_reserves and
\* daily_production at or above 0, and the value is 0 when the cell of the row
\* is absent or holds nothing that parses as a number.
C21_VolumesAreNonNegative ==
    (/\ resp.op = "rows"
     /\ resp.rowInput.columns = WellsVolumeColumns
     /\ resp.rows[1].data # JSNull) =>
        LET row == resp.rowInput.row
            data == resp.rows[1].data
        IN  /\ AtLeast(data.estimated_reserves, 0)
            /\ AtLeast(data.daily_production, 0)
            /\ row["reservas"] \in Unparseable => data.estimated_reserves = JSNum(0)
            /\ row["produção"] \in Unparseable => data.daily_production = JSNum(0)

----------------------------------------------------------------------------
(* Type detection *)

\* the indicators of a list that occur inside some lower-cased column name
Occurring(indicators, columns) ==
    {ind \in {indicators[k] : k \in 1..Len(indicators)} :
        \E j \in 1..Len(columns) : includes(toLowerCase(columns[j]), ind)}

\* C22: a column list is classified production exactly when more production
\* indicators than wells indicators occur as a substring of some lower-cased
\* column name, and wells otherwise, so on a tie and on the empty list;
\* oil, water, daytime, wlbr_id is production and latitude, longitude, block,
\* field is wells.
C22_ProductionIffMoreProductionIndicators ==
    resp.op = "dataType" =>
        /\ resp.dataType \in {"production", "wells"}
        /\ resp.dataType = "production"
               <=> Cardinality(Occurring(productionIndicators, resp.columns))
                       > Cardinality(Occurring(wellIndicators, resp.columns))
        /\ resp.columns = <<>> => resp.dataType = "wells"
        /\ resp.columns = <<"oil", "water", "daytime", "wlbr_id">> => resp.dataType = "production"
        /\ resp.columns = <<"latitude", "longitude", "block", "field">> => resp.dataType = "wells"

\* a list with as many indicators of one kind as of the other, one of them in
\* capitals, has been classified wells
C22_Witness ==
    /\ resp.op = "dataType"
    /\ resp.columns = <<"WLBR_ID", "block">>
    /\ resp.dataType = "wells"

----------------------------------------------------------------------------
(* Pages and tables *)

\* the table behind the file session a parse answer names
SessionTable == ReaderTable(uploadFiles[fileCache[resp.sessionId].filePath])

\* a /parse-table-batch request has been answered with a page
PageAnswered == resp.op = "parse-table-batch" /\ resp.status = 200

\* C23: a page fetched at an offset of 0 or more with a limit above 0 holds
\* the rows of positions [offset, offset + limit) of the table, in table order
\* and cut at the end of the table; hasMore is true exactly when offset plus
\* the number of rows returned is below totalRows; and on a table of 5 rows
\* offset 0 with limit 10 returns exactly 5 outcomes and hasMore false.
C23_PageIsSliceOfTable ==
    (PageAnswered /\ resp.offset >= 0 /\ resp.limit > 0) =>
        LET allData == SessionTable.data
            last == Min(resp.offset + resp.limit, Len(allData))
        IN  /\ resp.totalRows = Len(allData)
            /\ Len(resp.rows) = (IF last > resp.offset THEN last - resp.offset ELSE 0)
            /\ \A k \in 1..Len(resp.rows) : resp.rows[k].original = allData[resp.offset + k]
            /\ resp.hasMore <=> (resp.offset + Len(resp.rows) < resp.totalRows)
            /\ (Len(allData) = 5 /\ resp.offset = 0 /\ resp.limit = 10)
                   => Len(resp.rows) = 5 /\ ~resp.hasMore

\* the table of five rows has been fetched at offset 0 with limit 10
C23_Witness ==
    /\ PageAnswered
    /\ Len(SessionTable.data) = 5
    /\ resp.offset = 0 /\ resp.limit = 10
    /\ Len(resp.rows) = 5
    /\ ~resp.hasMore

\* the outcomes /parse-table returns for the table of the session, the two
\* lists taken together
WholeTableOutcomes ==
    LET answer == TableAnswer(NoResp, uploadFiles[fileCache[resp.sessionId].filePath])
    IN  {answer.success[k] : k \in 1..Len(answer.success)}
            \cup {answer.failed[k] : k \in 1..Len(answer.failed)}

\* C24: the row at local position i (from 0) of a page fetched at offset gets
\* row number offset + i + 1, its 1-based position in the whole table, and
\* /parse-table on the same table returns one outcome with that row number,
\* which is the very outcome the page holds.
C24_PageRowsNumberedAsInWholeTable ==
    (PageAnswered /\ resp.offset >= 0) =>
        \A k \in 1..Len(resp.rows) :
            /\ resp.rows[k].row = resp.offset + (k - 1) + 1
            /\ resp.rows[k].original = SessionTable.data[resp.rows[k].row]
            /\ \A outcome \in WholeTableOutcomes :
                   outcome.row = resp.rows[k].row <=> outcome = resp.rows[k]
            /\ resp.rows[k] \in WholeTableOutcomes

\* a page of two rows fetched at offset 2 holds the rows numbered 3 and 4
C24_Witness ==
    /\ PageAnswered
    /\ resp.offset = 2
    /\ Len(resp.rows) = 2
    /\ resp.rows[1].row = 3 /\ resp.rows[1].data # JSNull
    /\ resp.rows[2].row = 4 /\ resp.rows[2].data = JSNull

\* a /parse-table request has been answered with the two lists
TableAnswered == resp.op = "parse-table" /\ resp.status = 200

\* the row numbers of a list of outcomes
RowNumbers(outcomes) == {outcomes[k].row : k \in 1..Len(outcomes)}

\* C25: rows that fail validation never abort /parse-table: its answer holds
\* every row of the table exactly once, by row number, in the success list
\* (with a record) or in the failed list (without one); the two lists share no
\* row number and their lengths add up to totalRows, the number of rows of
\* the table.
C25_EveryRowInSuccessOrFailed ==
    TableAnswered =>
        /\ Len(resp.success) + Len(resp.failed) = resp.totalRows
        /\ RowNumbers(resp.success) \cup RowNumbers(resp.failed) = 1..resp.totalRows
        /\ RowNumbers(resp.success) \cap RowNumbers(resp.failed) = {}
        /\ \A k \in 1..Len(resp.success) : resp.success[k].data # JSNull
        /\ \A k \in 1..Len(resp.failed) : resp.failed[k].data = JSNull
        /\ resp.sessionId \in DOMAIN fileCache => resp.totalRows = Len(SessionTable.data)

\* the table of five rows, two of them invalid, has been parsed in one piece
C25_Witness ==
    /\ TableAnswered
    /\ resp.totalRows = 5
    /\ RowNumbers(resp.success) = {1, 3, 5}
    /\ RowNumbers(resp.failed) = {2, 4}

----------------------------------------------------------------------------
(* Retrying and rejecting *)

\* C26: a complete that is rejected because a chunk is missing leaves the
\* upload in the registry with its metadata, its chunk directory and its
\* stored chunks as they were; and a complete that finds every chunk stored
\* while the output file of an earlier, rejected attempt is still on disk is
\* not rejected and leaves in that file the chunks' bytes in ascending index
\* order, nothing of the earlier attempt (it answers 200 unless the table
\* reader rejects the assembled file).
C26_FailedCompleteLeavesUploadRetryable ==
    [][\A u \in UploadIds :
          CompleteStep(u) =>
              /\ (resp'.status = 400 /\ resp'.error = ErrChunkMissing)
                     => /\ u \in DOMAIN chunkSessions'
                        /\ chunkSessions' = chunkSessions
                        /\ chunkDirs' = chunkDirs
                        /\ chunkParts' = chunkParts
              /\ (/\ u \in DOMAIN chunkSessions
                  /\ ValidTotal(u)
                  /\ MissingIndices(u) = {}
                  /\ FinalPath(u, chunkSessions[u].filename) \in DOMAIN uploadFiles)
                     => LET path == FinalPath(u, chunkSessions[u].filename)
                            n == ToNumber(chunkSessions[u].totalChunks).n
                        IN  /\ resp'.status = 200 \/ resp'.error = ErrReader
                            /\ uploadFiles'[path] = ConcatAscending(u, n)]_vars

\* a complete was rejected for its missing second chunk: the upload is still
\* registered with its first chunk stored, beside the output file of the
\* rejected attempt
C26_Witness ==
    /\ resp.op = "upload-complete"
    /\ resp.status = 400
    /\ resp.error = ErrChunkMissing
    /\ resp.missing = 1
    /\ resp.uploadId \in DOMAIN chunkSessions
    /\ <<resp.uploadId, 0>> \in DOMAIN chunkParts
    /\ FinalPath(resp.uploadId, chunkSessions[resp.uploadId].filename) \in DOMAIN uploadFiles

\* C27: a chunk request that is rejected with 400 - unknown uploadId, invalid
\* index, invalid totalChunks or no chunk payload - leaves the registry as it
\* was (no session's last activity refreshed, no session's totalChunks set)
\* and writes no chunk file.
C27_RejectedChunkChangesNothing ==
    [][\A u \in AnyIds :
          (AnyChunkStep(u) /\ resp'.status = 400)
          => /\ chunkSessions' = chunkSessions
             /\ chunkDirs' = chunkDirs
             /\ chunkParts' = chunkParts]_vars

----------------------------------------------------------------------------
(* Invariants of the upload registry *)

\* C28: in every reachable state the totalChunks of every upload in the
\* registry is unset (null) or a positive integer, whatever size and
\* totalChunks init was given and whatever totalChunks the chunk requests
\* carried.
C28_TotalChunksNullOrPositive ==
    \A u \in DOMAIN chunkSessions :
        \/ chunkSessions[u].totalChunks = JSNull
        \/ /\ chunkSessions[u].totalChunks.t = "number"
           /\ chunkSessions[u].totalChunks.n > 0

\* C29: in every reachable state where an upload has its totalChunks set (to
\* a positive number), every chunk index stored for it lies in
\* [0, totalChunks), and so the number of stored chunks never exceeds
\* totalChunks.
C29_StoredIndicesBelowTotalChunks ==
    \A u \in DOMAIN chunkSessions :
        (chunkSessions[u].totalChunks # JSNull /\ chunkSessions[u].totalChunks.n > 0) =>
            LET stored == PartIndices(chunkSessions[u].dirPath)
                total == chunkSessions[u].totalChunks.n
            IN  /\ \A i \in stored : 0 <= i /\ i < total
                /\ Cardinality(stored) <= total

----------------------------------------------------------------------------
(* Error answers *)

\* a /list-tables request
ListStep ==
    /\ resp'.op = "list-tables"
    /\ \E file \in {NoFile, File(<<1>>)}, readerOk \in BOOLEAN : list_tables(file, readerOk)

\* C30: when /upload-complete or /list-tables answers with an error - the
\* table reader rejecting the file, for one - the file session cache holds no
\* session that the request created, and after such an answer of
\* /upload-complete the upload is still in the registry.
C30_ErrorAnswerCreatesNoFileSession ==
    [][/\ \A u \in UploadIds :
              (CompleteStep(u) /\ resp'.status >= 400)
              => /\ DOMAIN fileCache' \subseteq DOMAIN fileCache
                 /\ u \in DOMAIN chunkSessions => u \in DOMAIN chunkSessions'
       /\ (ListStep /\ resp'.status >= 400)
              => DOMAIN fileCache' \subseteq DOMAIN fileCache]_vars

----------------------------------------------------------------------------
(* Requests and sweep ticks interleaved on one upload *)

\* the upload was issued and has left the registry: assembled, aborted or evicted
Gone(uploadId) == uploadId \notin pool /\ uploadId \notin DOMAIN chunkSessions

\* the file sessions a step adds to the cache
Created == DOMAIN fileCache' \ DOMAIN fileCache

\* C31: however complete, abort, chunk requests and sweep ticks on an upload
\* interleave, at most one complete succeeds and at most one file session is
\* created for it: a complete that succeeds or creates a file session creates
\* exactly one and takes the upload out of the registry in the same step, an
\* upload that has left the registry (assembled, aborted or evicted) never
\* returns to it whatever the step, and a complete on such an upload is
\* answered 400 and creates no file session.
C31_AtMostOneCompleteSucceeds ==
    [][\A u \in UploadIds :
          /\ Gone(u) => Gone(u)'
          /\ CompleteStep(u) =>
                /\ (resp'.status = 200 \/ Created # {})
                      => /\ Cardinality(Created) = 1
                         /\ u \in DOMAIN chunkSessions
                         /\ Gone(u)'
                /\ Gone(u) => (resp'.status = 400 /\ fileCache' = fileCache)]_vars

\* a second complete on an upload whose first complete made a file session
\* has been refused, the other upload being still in progress
C31_Witness ==
    /\ resp.op = "upload-complete"
    /\ resp.status = 400
    /\ resp.error = ErrNotFound
    /\ Gone(resp.uploadId)
    /\ \E sid \in DOMAIN fileCache : fileCache[sid].filePath.id = resp.uploadId
    /\ Cardinality(DOMAIN fileCache) = 1
    /\ DOMAIN chunkSessions # {}

----------------------------------------------------------------------------
(* Reading a table page by page *)

\* the table the client is reading
ClientTable == ReaderTable(uploadFiles[fileCache[client.sessionId].filePath])

\* what the client holds is the row numbers 1..offset, each once and in order;
\* every page it took brought at least one row, but for the single page of an
\* empty table; and when it has stopped it holds every row number of the table
PagedInOrder ==
    client.state \in {"paging", "done"} =>
        LET totalRows == Len(ClientTable.data)
        IN  /\ client.received = [k \in 1..client.offset |-> k]
            /\ client.offset <= totalRows
            /\ client.calls <= (IF totalRows = 0 THEN 1 ELSE client.offset)
            /\ client.state = "done" =>
                   {client.received[k] : k \in 1..Len(client.received)} = 1..totalRows

\* the server has answered the request the client has in flight, if any
Answered == client.state = "paging" => PageArrived

\* C32: a client that pages a table with a fixed limit above 0, from offset 0,
\* advancing its offset by the number of rows returned while hasMore is true,
\* stops after finitely many page requests (at most one per row of the table)
\* and by then has received every row number 1..totalRows exactly once, the
\* table being the same at every call and every request being answered.
C32_PagingTerminatesWithEveryRowOnce ==
    /\ []PagedInOrder
    /\ ([]<>Answered) => ((client.state = "paging") ~> (client.state = "done"))

\* the table of five rows has been read in three pages of limit 2
C32_Witness ==
    /\ client.state = "done"
    /\ client.limit = 2
    /\ client.calls = 3
    /\ client.received = <<1, 2, 3, 4, 5>>
    /\ ~resp.hasMore

----------------------------------------------------------------------------
(* Sessions left alone are evicted *)

\* the upload is registered with its last activity at instant t
UploadSince(uploadId, t) ==
    uploadId \in DOMAIN chunkSessions /\ chunkSessions[uploadId].createdAt = t

\* the file session is registered with its last access at instant t
FileSessionSince(sessionId, t) ==
    sessionId \in DOMAIN fileCache /\ fileCache[sessionId].timestamp = t

\* the instants from which the clock of the model can still pass a TTL
Before(ttl) == {t \in LiveInstants : t + ttl < MaxNow}

====
